---- MODULE Spec2Model ----
(***************************************************************************)
(* A model of the ML service of confidential-cat-counter:                  *)
(*   policy.py  - the policy bundle loader and the two policy evaluators   *)
(*   audit.py   - the sequenced, signed audit emitter                       *)
(*   app.py     - process_job and job_worker, the job lifecycle            *)
(*   attestation.py    - the development verifier and evidence builder     *)
(*   sitecustomize.py  - the egress guard around socket.connect            *)
(*                                                                         *)
(* Python values whose type the code inspects (isinstance) are tagged      *)
(* records; strings the code searches are sequences of characters; byte    *)
(* blobs are named, with utf-8 decoding and JSON parsing given per blob.   *)
(***************************************************************************)
EXTENDS Integers, Sequences, FiniteSets, TLC

VARIABLES
    environ,        \* os.environ: POLICY_BUNDLE_PATH, POLICY_BUNDLE_HMAC_KEY, POLICY_BUNDLE_SIGNATURE
    files,          \* the file system: path -> bytes, of the policy bundle source
    phase,          \* "boot" before startup(), "running" after it, "aborted" if it raised
    policy_bundle,  \* app.py global policy_bundle
    policy_digest,  \* app.py global policy_digest
    startup_exc,    \* the exception startup() died of ("" if none)
    input_eval,     \* the last call of evaluate_input_policy: its job and decision
    queue,          \* the Redis list 'ml-jobs'
    store,          \* the Redis keys job:<id>: id -> [value, ttl]
    pc,             \* each worker process's position in job_worker / process_job
    job_data,       \* each worker's job_data dict
    result,         \* each worker's result dict
    exc,            \* each worker's caught exception message
    persisted,      \* each worker: this delivery has persisted 'processing'
    _SEQ,           \* audit.py global _SEQ, one per process
    sink,           \* the audit lines each process has printed
    detect_calls,   \* how many times detect_cats ran, per job id
    clock,          \* time.time(), a logical clock
    pushed,         \* envelopes pushed so far
    faults,         \* infrastructure faults injected so far
    model_session,  \* app.py global model_session: the loaded ONNX model, or "none"
    emits,          \* calls of emit_audit the emitter threads have started
    tpc,            \* each emitter thread's position in emit_audit
    treg,           \* each emitter thread's operand stack value of _SEQ += 1
    tseq,           \* the sequence number each emitter thread put in its record
    trace,          \* each worker: the calls process_job has made for this delivery
    output_eval,    \* the last call of evaluate_output_policy: its result and decision
    redact_eval,    \* the last redaction: its input, one pass and two passes
    verify_eval,    \* the last audit record re-verified: as emitted and as altered
    attest_eval,    \* the last call of DevAttestationVerifier.verify
    heap_eval,      \* the last run of the evaluators on objects: the heap before and after
    emit_eval,      \* the last call of emit_audit: its arguments, the counter, the record
    allowed_ips,    \* sitecustomize.py allowed_ips
    connect_patched,\* socket.socket.connect is _guard_connect
    resolver,       \* the names DNS resolves right now
    connect_eval    \* the last call of socket.connect: its address and outcome

vars == <<environ, files, phase, policy_bundle, policy_digest, startup_exc, input_eval,
          queue, store, pc, job_data, result, exc, persisted, _SEQ, sink,
          detect_calls, clock, pushed, faults, model_session, emits, tpc, treg, tseq,
          trace, output_eval, redact_eval, verify_eval, attest_eval, heap_eval,
          emit_eval,
          allowed_ips, connect_patched, resolver, connect_eval>>

policyVars == <<environ, files, phase, policy_bundle, policy_digest, startup_exc>>
jobVars == <<queue, store, pc, job_data, result, exc, persisted, detect_calls, clock, pushed,
            trace>>
threadVars == <<emits, tpc, treg, tseq>>
evalVars == <<output_eval, redact_eval, verify_eval, attest_eval, heap_eval, emit_eval>>
guardVars == <<allowed_ips, connect_patched, resolver, connect_eval>>

(***************************************************************************)
(* Python values                                                           *)
(***************************************************************************)
None == [t |-> "None"]
PyInt(n) == [t |-> "int", v |-> n]
PyFloat(repr) == [t |-> "float", v |-> repr]
PyStr(s) == [t |-> "str", v |-> s]

isinstance(value, type) == value.t = type

\* dict.update / {**d, **u}: the keys of u win
DictUpdate(d, u) == u @@ d

\* pat in value, on strings
Contains(pat, s) ==
    \E i \in 1..(Len(s) - Len(pat) + 1) : SubSeq(s, i, i + Len(pat) - 1) = pat

(***************************************************************************)
(* policy.py: the default bundle                                           *)
(***************************************************************************)
DefaultMaxResponseSize == 2048
DefaultMaxCats == 20

_default_policy_bundle ==
    [version |-> "1.0",
     max_response_size |-> DefaultMaxResponseSize,
     forbidden_patterns |-> << <<"i","m","a","g","e","/">>, <<"d","a","t","a",":">>,
                               <<"/","9","j","/">>, <<"i","V","B","O","R">> >>,
     min_confidence |-> 0,
     max_cats |-> DefaultMaxCats]

\* A stricter bundle an operator may deploy
StrictBundle ==
    [version |-> "2.0",
     max_response_size |-> 64,
     forbidden_patterns |-> << <<"d","a","t","a",":">> >>,
     min_confidence |-> 0,
     max_cats |-> 5]

\* A bundle that names no limit: the evaluator's own defaults apply
SparseBundle == [version |-> "3.0"]

(***************************************************************************)
(* Byte blobs a bundle file may hold.  DEFAULT_MIN is the compact          *)
(* serialization of the default bundle (what json.dumps with separators    *)
(* (",", ":") yields); DEFAULT_PRETTY is the same bundle with whitespace.  *)
(***************************************************************************)
Blobs == {"DEFAULT_MIN", "DEFAULT_PRETTY", "STRICT_MIN", "SPARSE_MIN", "TRUNCATED", "EMPTY",
          "LATIN1"}

\* bytes.decode("utf-8")
utf8_decode(content) ==
    IF content = "LATIN1"
    THEN [ok |-> FALSE, exc |-> "UnicodeDecodeError"]
    ELSE [ok |-> TRUE, text |-> content]

\* json.loads
json_loads(text) ==
    CASE text \in {"DEFAULT_MIN", "DEFAULT_PRETTY"} -> [ok |-> TRUE, value |-> _default_policy_bundle]
      [] text = "STRICT_MIN" -> [ok |-> TRUE, value |-> StrictBundle]
      [] text = "SPARSE_MIN" -> [ok |-> TRUE, value |-> SparseBundle]
      [] OTHER -> [ok |-> FALSE, exc |-> "JSONDecodeError"]

\* json.dumps(bundle, separators=(",", ":")).encode("utf-8")
json_dumps_bundle(bundle) ==
    CASE bundle = _default_policy_bundle -> "DEFAULT_MIN"
      [] bundle = StrictBundle -> "STRICT_MIN"
      [] bundle = SparseBundle -> "SPARSE_MIN"

\* hashlib.sha256(data).hexdigest(), collision-free
_sha256_hexdigest(data) == <<"sha256", data>>

\* hmac.new(key, content, hashlib.sha256).hexdigest()
hmac_sha256(key, content) == <<"hmac-sha256", key, content>>

(***************************************************************************)
(* policy.py: load_policy_bundle                                           *)
(***************************************************************************)
PolicyPath == "/policy/bundle.json"
PolicyKey == "dev-policy-key"

\* os.getenv(name, "")
getenv(env, name) == IF name \in DOMAIN env THEN env[name] ELSE ""

\* os.path.exists
path_exists(fs, path) == path \in DOMAIN fs

Loaded(bundle, content) ==
    [raised |-> FALSE, bundle |-> bundle, digest |-> _sha256_hexdigest(content)]

Raised(e) == [raised |-> TRUE, exc |-> e]

\* The digest of rejected bytes: the fallback without line 41
parse_fallback_stale(content) == Loaded(_default_policy_bundle, content)

\* except json.JSONDecodeError: the default bundle, and the digest of its serialization
parse_fallback(content) ==
    Loaded(_default_policy_bundle, json_dumps_bundle(_default_policy_bundle))

load_policy_bundle(env, fs) ==
    LET path == getenv(env, "POLICY_BUNDLE_PATH") IN
    IF path # "" /\ path_exists(fs, path)
    THEN LET content == fs[path]
             decoded == utf8_decode(content)
         IN  IF ~decoded.ok
             THEN Raised(decoded.exc)     \* UnicodeDecodeError is no JSONDecodeError
             ELSE LET parsed == json_loads(decoded.text)
                  IN  IF parsed.ok
                      THEN Loaded(parsed.value, content)
                      ELSE parse_fallback(content)
    ELSE Loaded(_default_policy_bundle, json_dumps_bundle(_default_policy_bundle))

(***************************************************************************)
(* policy.py: the evaluators                                               *)
(***************************************************************************)
MaxUploadSize == 25 * 1024 * 1024

PolicyDecision(action, reasons, rule_ids, redacted_output) ==
    [action |-> action, reasons |-> reasons, rule_ids |-> rule_ids,
     redacted_output |-> redacted_output]

\* dict.get(key): None when the key is absent
dict_get(d, key) == IF key \in DOMAIN d THEN d[key] ELSE None

\* dict.get(key, default)
dict_get_or(d, key, default) == IF key \in DOMAIN d THEN d[key] ELSE default

\* The ceiling test without the type test: a size that is no int counts as too large
size_over_ceiling_untyped(size) ==
    size # None /\ (isinstance(size, "int") => size.v > MaxUploadSize)

\* The ceiling test with >= for >
size_over_ceiling_inclusive(size) == isinstance(size, "int") /\ size.v >= MaxUploadSize

\* isinstance(size, int) and size > 25 * 1024 * 1024
size_over_ceiling(size) == isinstance(size, "int") /\ size.v > MaxUploadSize

evaluate_input_policy(job, bundle) ==
    LET size == dict_get(job, "size") IN
    IF size_over_ceiling(size)
    THEN PolicyDecision("deny", <<"file_too_large">>, <<"in.max_upload_size">>, None)
    ELSE PolicyDecision("allow", <<>>, <<>>, None)

AllowedKeys == <<"cats", "confidence", "processing_time", "model">>

\* A redaction that hands the output back whole
_redact_output_keep_all(output, bundle) == output

\* A redaction that also bounds each kept string by dropping its last character
_redact_output_trimming(output, bundle) ==
    LET keep == {AllowedKeys[i] : i \in 1..Len(AllowedKeys)} \cap DOMAIN output
    IN  [k \in keep |->
            IF isinstance(output[k], "str") /\ Len(output[k].v) > 0
            THEN PyStr(SubSeq(output[k].v, 1, Len(output[k].v) - 1))
            ELSE output[k]]

_redact_output(output, bundle) ==
    LET keep == {AllowedKeys[i] : i \in 1..Len(AllowedKeys)} \cap DOMAIN output
    IN  [k \in keep |-> output[k]]

\* len(str(n)) of an int
RECURSIVE DigitsLen(_)
DigitsLen(n) ==
    IF n < 0 THEN 1 + DigitsLen(-n)
    ELSE IF n < 10 THEN 1 ELSE 1 + DigitsLen(n \div 10)

\* The length of a key, in characters
KeyLen(k) ==
    CASE k = "cats" -> 4
      [] k = "confidence" -> 10
      [] k = "processing_time" -> 15
      [] k = "model" -> 5
      [] k = "debug" -> 5
      [] k = "image" -> 5

\* len(json.dumps(value)) of a scalar (strings here need no escapes)
JsonValueLen(value) ==
    CASE value.t = "int" -> DigitsLen(value.v)
      [] value.t = "float" -> Len(value.v)
      [] value.t = "str" -> Len(value.v) + 2
      [] value.t = "None" -> 4

RECURSIVE SumOver(_, _)
SumOver(f, keys) ==
    IF keys = {} THEN 0
    ELSE LET k == CHOOSE x \in keys : TRUE
         IN  KeyLen(k) + 3 + JsonValueLen(f[k]) + SumOver(f, keys \ {k})

\* len(json.dumps(output, separators=(",", ":")).encode("utf-8"))
serialized_len(output) ==
    LET n == Cardinality(DOMAIN output)
    IN  2 + SumOver(output, DOMAIN output) + (IF n > 0 THEN n - 1 ELSE 0)

\* len(serialized) > int(bundle.get("max_response_size", 2048))
response_too_large(output, bundle) ==
    serialized_len(output) > dict_get_or(bundle, "max_response_size", 2048)

\* any(p in v for p in forbidden) for some str value v of the output
forbidden_pattern(output, bundle) ==
    LET forbidden == dict_get_or(bundle, "forbidden_patterns", <<>>)
    IN  \E key \in DOMAIN output :
            /\ isinstance(output[key], "str")
            /\ \E i \in 1..Len(forbidden) : Contains(forbidden[i], output[key].v)

\* The cat limit with >= for >
cats_exceed_limit_inclusive(output, bundle) ==
    LET cats == dict_get(output, "cats")
    IN  isinstance(cats, "int") /\ cats.v >= dict_get_or(bundle, "max_cats", 20)

\* isinstance(cats, int) and cats > int(bundle.get("max_cats", 20))
cats_exceed_limit(output, bundle) ==
    LET cats == dict_get(output, "cats")
    IN  isinstance(cats, "int") /\ cats.v > dict_get_or(bundle, "max_cats", 20)

Redact(reason, rule_id, output, bundle) ==
    PolicyDecision("redact", <<reason>>, <<rule_id>>, _redact_output(output, bundle))

\* The evaluator with the cat limit tested before the size and the patterns
evaluate_output_policy_cats_first(output, bundle) ==
    IF cats_exceed_limit(output, bundle)
    THEN Redact("cats_exceed_limit", "out.cats_limit", output, bundle)
    ELSE IF response_too_large(output, bundle)
    THEN Redact("response_too_large", "out.size", output, bundle)
    ELSE IF forbidden_pattern(output, bundle)
    THEN Redact("forbidden_pattern", "out.forbidden_pattern", output, bundle)
    ELSE PolicyDecision("allow", <<>>, <<>>, None)

evaluate_output_policy(output, bundle) ==
    IF response_too_large(output, bundle)
    THEN Redact("response_too_large", "out.size", output, bundle)
    ELSE IF forbidden_pattern(output, bundle)
    THEN Redact("forbidden_pattern", "out.forbidden_pattern", output, bundle)
    ELSE IF cats_exceed_limit(output, bundle)
    THEN Redact("cats_exceed_limit", "out.cats_limit", output, bundle)
    ELSE PolicyDecision("allow", <<>>, <<>>, None)

(***************************************************************************)
(* The evaluators on objects.  A heap maps a reference to the value of the  *)
(* object it names; an argument is a reference, and a call returns the heap *)
(* it leaves behind together with what it returned.                         *)
(***************************************************************************)
\* The reference of an object created now
NewRef(heap) ==
    IF "dict1" \notin DOMAIN heap THEN "dict1"
    ELSE IF "dict2" \notin DOMAIN heap THEN "dict2"
    ELSE "dict3"

\* A redaction that deletes the unknown keys from the output itself and returns it
_redact_output_in_place(heap, output, bundle) ==
    [heap |-> [heap EXCEPT ![output] = _redact_output(@, heap[bundle])],
     ref |-> output]

\* _redact_output: redacted = {} is a new dict, filled from output and returned
_redact_output_obj(heap, output, bundle) ==
    LET redacted == NewRef(heap)
    IN  [heap |-> (redacted :> _redact_output(heap[output], heap[bundle])) @@ heap,
         ref |-> redacted]

\* evaluate_input_policy: reads job_data.get("size"), writes nothing
evaluate_input_policy_obj(heap, job, bundle) ==
    [heap |-> heap, decision |-> evaluate_input_policy(heap[job], heap[bundle])]

\* evaluate_output_policy: reads output and bundle; a Redact decision refers to the
\* dict _redact_output made
evaluate_output_policy_obj(heap, output, bundle) ==
    LET decision == evaluate_output_policy(heap[output], heap[bundle])
    IN  IF decision.action = "redact"
        THEN LET r == _redact_output_obj(heap, output, bundle)
             IN  [heap |-> r.heap,
                  action |-> decision.action, reasons |-> decision.reasons,
                  rule_ids |-> decision.rule_ids, redacted_output |-> r.ref]
        ELSE [heap |-> heap,
              action |-> decision.action, reasons |-> decision.reasons,
              rule_ids |-> decision.rule_ids, redacted_output |-> "None"]

decision_to_dict(decision) ==
    LET d == [action |-> decision.action, reasons |-> decision.reasons,
              rule_ids |-> decision.rule_ids]
    IN  IF decision.redacted_output # None
        THEN DictUpdate(d, [redacted_output |-> decision.redacted_output])
        ELSE d

(***************************************************************************)
(* audit.py                                                                *)
(***************************************************************************)
_get_audit_key == "dev-local-hmac-key"

\* A signature over the emitter's own four fields only, the caller's data left out
sign_record_own_fields(record) ==
    hmac_sha256(_get_audit_key,
                [k \in DOMAIN record \cap {"event", "timestamp", "simulated", "sequence"}
                    |-> record[k]])

\* HMAC over json.dumps(record, sort_keys=True): a dict is its own sorted-key form
sign_record(record) == hmac_sha256(_get_audit_key, record)

\* The record emit_audit builds when the counter reads seq and the clock reads now
audit_record(event, seq, now, data) ==
    LET enriched == DictUpdate([event |-> event, timestamp |-> now,
                                simulated |-> TRUE, sequence |-> seq], data)
    IN  DictUpdate(enriched, [signature |-> sign_record(enriched)])

(***************************************************************************)
(* app.py: the job lifecycle                                               *)
(***************************************************************************)
Workers == {"w1", "w2"}
Main == "w1"
JobIds == {"j1", "j2"}
MaxDeliveries == 2
MaxFaults == 1
JobTTL == 3600

EmptyDict == [k \in {} |-> None]

\* No call of evaluate_input_policy is on record
NoInputEval == [job |-> EmptyDict, decision |-> None]

\* The evaluators are pure: a behaviour records one call, on any of the samples
NoCallYet ==
    /\ input_eval = NoInputEval
    /\ output_eval = None
    /\ redact_eval = None
    /\ verify_eval = None
    /\ attest_eval = None
    /\ heap_eval = None

\* The files under /app/uploads
Uploads == {"cat.jpg"}

SmallSize == 1024 * 1024
LargeSize == 30 * 1024 * 1024

\* The envelopes the front end pushes: {id, filename, size}
Envelopes ==
    { [id |-> j, filename |-> fs[1], size |-> PyInt(fs[2])] :
        j \in JobIds,
        fs \in {<<"cat.jpg", SmallSize>>, <<"cat.jpg", LargeSize>>, <<"gone.jpg", SmallSize>>,
                 <<"lost.jpg", SmallSize>>} }

\* What else may sit on the list: bytes that are not JSON, and JSON without an id
Malformed == { [raw |-> "{not json"], [filename |-> "cat.jpg", size |-> PyInt(SmallSize)] }

\* json.loads(job_raw) returns, and job_data['id'] and job_data['filename'] exist
WellFormed(item) == "raw" \notin DOMAIN item /\ {"id", "filename"} \subseteq DOMAIN item

DetectResult(cats, confidence, model) ==
    [cats |-> PyInt(cats), confidence |-> PyFloat(confidence),
     processing_time |-> PyStr(<<"1",".","5","2","s">>), model |-> PyStr(model)]

\* detect_cats_mock on a file named cat.jpg: 1 to 3 cats, model 'mock'
detect_cats_mock ==
    { DetectResult(n, <<"0",".","9">>, <<"m","o","c","k">>) : n \in {2} }

\* The try block of detect_cats_onnx when nothing in it raises: the model's count,
\* under the name '<model>-onnx'
onnx_detection ==
    { DetectResult(21, <<"0",".","9","7">>,
                   <<"y","o","l","o","_","n","a","s","_","l","-","o","n","n","x">>) }

\* detect_cats_onnx: the model's count, or the mock's result when anything in it raises
detect_cats_onnx == onnx_detection \cup detect_cats_mock

detect_cats(session) == IF session # "none" THEN detect_cats_onnx ELSE detect_cats_mock

\* redis GET job:<id>
redis_get(st, id) == IF id \in DOMAIN st THEN st[id].value ELSE None

\* redis SET job:<id> <json>: the key is stored with no expiry (TTL reports -1)
redis_set_no_expiry(st, id, value) == (id :> [value |-> value, ttl |-> -1]) @@ st

\* redis SETEX job:<id> 3600 <json>
redis_setex(st, id, value) == (id :> [value |-> value, ttl |-> JobTTL]) @@ st

\* The idempotency test that forgets 'processing'
is_duplicate_completed_only(existing) ==
    existing # None /\ dict_get(existing, "status") \in {"completed"}

\* existing_job and existing_data.get('status') in ['processing', 'completed']
is_duplicate(existing) ==
    existing # None /\ dict_get(existing, "status") \in {"processing", "completed"}

\* A gate that lets a denied job through
denied_never(decision) == FALSE

\* decision.action == 'deny'
denied(decision) == decision.action = "deny"

Return(w) ==
    /\ pc' = [pc EXCEPT ![w] = "brpop"]
    /\ job_data' = [job_data EXCEPT ![w] = EmptyDict]
    /\ result' = [result EXCEPT ![w] = EmptyDict]
    /\ exc' = [exc EXCEPT ![w] = ""]
    /\ persisted' = [persisted EXCEPT ![w] = FALSE]
    /\ trace' = [trace EXCEPT ![w] = <<>>]

\* The calls process_job has made so far, in order
Called(w, calls) == trace' = [trace EXCEPT ![w] = @ \o calls]

\* An except clause that swallows the exception and returns without a write
Raise_swallowed(w, e) ==
    /\ pc' = [pc EXCEPT ![w] = "brpop"]
    /\ exc' = [exc EXCEPT ![w] = e]

Raise(w, e) ==
    /\ pc' = [pc EXCEPT ![w] = "handler"]
    /\ exc' = [exc EXCEPT ![w] = e]

\* The front end pushes an envelope (LPUSH ml-jobs)
Enqueue(e) ==
    /\ pushed < MaxDeliveries
    /\ pushed' = pushed + 1
    /\ queue' = <<e>> \o queue
    /\ UNCHANGED <<store, pc, job_data, result, exc, persisted, detect_calls, clock, trace,
                   _SEQ, sink, faults, model_session, input_eval, evalVars, guardVars, policyVars, threadVars>>

\* A loop that pops the next envelope without awaiting the process_job in hand
Brpop_not_awaiting(w) ==
    /\ queue # <<>>
    /\ WellFormed(queue[Len(queue)])
    /\ queue' = SubSeq(queue, 1, Len(queue) - 1)
    /\ job_data' = [job_data EXCEPT ![w] = queue[Len(queue)]]
    /\ pc' = [pc EXCEPT ![w] = "get"]
    /\ clock' = clock + 1
    /\ UNCHANGED <<store, result, exc, persisted, detect_calls, pushed, trace,
                   _SEQ, sink, faults, model_session, input_eval, evalVars, guardVars,
                   policyVars, threadVars>>

\* job_worker: brpop returned an envelope; process_job is entered
Brpop(w) ==
    /\ pc[w] = "brpop"
    /\ queue # <<>>
    /\ WellFormed(queue[Len(queue)])
    /\ queue' = SubSeq(queue, 1, Len(queue) - 1)
    /\ job_data' = [job_data EXCEPT ![w] = queue[Len(queue)]]
    /\ pc' = [pc EXCEPT ![w] = "get"]
    /\ clock' = clock + 1
    /\ UNCHANGED <<store, result, exc, persisted, detect_calls, pushed, trace,
                   _SEQ, sink, faults, model_session, input_eval, evalVars, guardVars, policyVars, threadVars>>

\* The check followed at once by the input policy, 'processing' never persisted
IdempotencyCheck_no_persist(w) ==
    /\ pc[w] = "get"
    /\ IF is_duplicate(redis_get(store, job_data[w].id))
       THEN Return(w)
       ELSE /\ pc' = [pc EXCEPT ![w] = "input_policy"]
            /\ Called(w, <<"redis.get">>)
            /\ UNCHANGED <<job_data, result, exc, persisted>>
    /\ UNCHANGED <<queue, store, detect_calls, clock, pushed,
                   _SEQ, sink, faults, model_session, input_eval, evalVars, guardVars,
                   policyVars, threadVars>>

\* process_job: the idempotency check
IdempotencyCheck(w) ==
    /\ pc[w] = "get"
    /\ IF is_duplicate(redis_get(store, job_data[w].id))
       THEN Return(w)
       ELSE /\ pc' = [pc EXCEPT ![w] = "setex_processing"]
            /\ Called(w, <<"redis.get">>)
            /\ UNCHANGED <<job_data, result, exc, persisted>>
    /\ UNCHANGED <<queue, store, detect_calls, clock, pushed,
                   _SEQ, sink, faults, model_session, input_eval, evalVars, guardVars, policyVars, threadVars>>

\* process_job: status 'processing' is persisted
PersistProcessing(w) ==
    /\ pc[w] = "setex_processing"
    /\ LET jd == DictUpdate(job_data[w], [status |-> "processing", processing_started |-> clock])
       IN  /\ job_data' = [job_data EXCEPT ![w] = jd]
           /\ store' = redis_setex(store, jd.id, jd)
    /\ persisted' = [persisted EXCEPT ![w] = TRUE]
    /\ pc' = [pc EXCEPT ![w] = "input_policy"]
    /\ Called(w, <<"redis.setex">>)
    /\ UNCHANGED <<queue, result, exc, detect_calls, clock, pushed,
                   _SEQ, sink, faults, model_session, input_eval, evalVars, guardVars, policyVars, threadVars>>

\* An emission that stamps the digest of the bundle serialized anew
EmitFromJob_recomputed_digest(w, event, decision) ==
    /\ _SEQ' = [_SEQ EXCEPT ![w] = @ + 1]
    /\ sink' = [sink EXCEPT ![w] =
                  Append(@, audit_record(event, _SEQ[w] + 1, clock,
                                         [job_id |-> job_data[w].id,
                                          decision |-> decision_to_dict(decision),
                                          policy_digest |->
                                              _sha256_hexdigest(json_dumps_bundle(policy_bundle))]))]

\* An emission that builds its record from the counter as it was before the increment
EmitFromJob_stale_sequence(w, event, decision) ==
    /\ _SEQ' = [_SEQ EXCEPT ![w] = @ + 1]
    /\ sink' = [sink EXCEPT ![w] =
                  Append(@, audit_record(event, _SEQ[w], clock,
                                         [job_id |-> job_data[w].id,
                                          decision |-> decision_to_dict(decision),
                                          policy_digest |-> policy_digest]))]

\* emit_audit, called from process_job: the counter, the record, the print
EmitFromJob(w, event, decision) ==
    /\ _SEQ' = [_SEQ EXCEPT ![w] = @ + 1]
    /\ sink' = [sink EXCEPT ![w] =
                  Append(@, audit_record(event, _SEQ[w] + 1, clock,
                                         [job_id |-> job_data[w].id,
                                          decision |-> decision_to_dict(decision),
                                          policy_digest |-> policy_digest]))]

\* process_job: the input policy gate
InputPolicyGate(w) ==
    /\ pc[w] = "input_policy"
    /\ LET input_decision == evaluate_input_policy(job_data[w], policy_bundle)
       IN  /\ EmitFromJob(w, "input_policy_decision", input_decision)
           /\ Called(w, <<"evaluate_input_policy", "emit_audit:input_policy_decision">>)
           /\ IF denied(input_decision)
              THEN Raise(w, "Input policy denied: ['file_too_large']")
              ELSE /\ pc' = [pc EXCEPT ![w] = "exists"]
                   /\ UNCHANGED exc
    /\ UNCHANGED <<queue, store, job_data, result, persisted, detect_calls, clock, pushed,
                   faults, model_session, input_eval, evalVars, guardVars, policyVars, threadVars>>

\* f"Image file not found: {image_path}", image_path being /app/uploads/<filename>
FileNotFoundMessage(filename) ==
    CASE filename = "cat.jpg" -> "Image file not found: /app/uploads/cat.jpg"
      [] filename = "gone.jpg" -> "Image file not found: /app/uploads/gone.jpg"
      [] filename = "lost.jpg" -> "Image file not found: /app/uploads/lost.jpg"

\* The inference entered without a look at the file
ArtifactCheck_unchecked(w) ==
    /\ pc[w] = "exists"
    /\ Called(w, <<"os.path.exists">>)
    /\ pc' = [pc EXCEPT ![w] = "detect"]
    /\ UNCHANGED <<queue, store, job_data, result, exc, persisted, detect_calls, clock, pushed,
                   _SEQ, sink, faults, model_session, input_eval, evalVars, guardVars,
                   policyVars, threadVars>>

\* process_job: os.path.exists(image_path)
ArtifactCheck(w) ==
    /\ pc[w] = "exists"
    /\ Called(w, <<"os.path.exists">>)
    /\ IF job_data[w].filename \notin Uploads
       THEN Raise(w, FileNotFoundMessage(job_data[w].filename))
       ELSE /\ pc' = [pc EXCEPT ![w] = "detect"]
            /\ UNCHANGED exc
    /\ UNCHANGED <<queue, store, job_data, result, persisted, detect_calls, clock, pushed,
                   _SEQ, sink, faults, model_session, input_eval, evalVars, guardVars, policyVars, threadVars>>

\* process_job: detect_cats and the normalisation of its result
RunInference(w) ==
    /\ pc[w] = "detect"
    /\ detect_calls' = [detect_calls EXCEPT ![job_data[w].id] = @ + 1]
    /\ \E r \in detect_cats(model_session) : result' = [result EXCEPT ![w] = r]
    /\ pc' = [pc EXCEPT ![w] = "output_policy"]
    /\ Called(w, <<"detect_cats">>)
    /\ UNCHANGED <<queue, store, job_data, exc, persisted, clock, pushed,
                   _SEQ, sink, faults, model_session, input_eval, evalVars, guardVars, policyVars, threadVars>>

\* process_job: the output policy gate
OutputPolicyGate(w) ==
    /\ pc[w] = "output_policy"
    /\ LET output_decision == evaluate_output_policy(result[w], policy_bundle)
       IN  /\ EmitFromJob(w, "output_policy_decision", output_decision)
           /\ Called(w, <<"evaluate_output_policy", "emit_audit:output_policy_decision">>)
           /\ IF denied(output_decision)
              THEN /\ Raise(w, "Output policy denied")
                   /\ UNCHANGED result
              ELSE /\ result' = [result EXCEPT ![w] =
                                   IF /\ output_decision.action = "redact"
                                      /\ output_decision.redacted_output # None
                                   THEN output_decision.redacted_output
                                   ELSE @]
                   /\ pc' = [pc EXCEPT ![w] = "setex_completed"]
                   /\ UNCHANGED exc
    /\ UNCHANGED <<queue, store, job_data, persisted, detect_calls, clock, pushed,
                   faults, model_session, input_eval, evalVars, guardVars, policyVars, threadVars>>

\* A write of 'completed' that merges the whole result into the record
PersistCompleted_whole_result(w) ==
    /\ pc[w] = "setex_completed"
    /\ LET jd == DictUpdate(DictUpdate(job_data[w], result[w]),
                    [status |-> "completed", completedAt |-> clock])
       IN  /\ store' = redis_setex(store, jd.id, jd)
           /\ Return(w)
    /\ UNCHANGED <<queue, detect_calls, clock, pushed,
                   _SEQ, sink, faults, model_session, input_eval, evalVars, guardVars,
                   policyVars, threadVars>>

\* process_job: job_data.update({... 'completed' ...}) and its SETEX
PersistCompleted(w) ==
    /\ pc[w] = "setex_completed"
    /\ IF {"processing_time", "model"} \subseteq DOMAIN result[w]
       THEN LET jd == DictUpdate(job_data[w],
                         [status |-> "completed",
                          cats |-> dict_get_or(result[w], "cats", PyInt(0)).v,
                          confidence |-> dict_get_or(result[w], "confidence", PyFloat(<<"0",".","0">>)).v,
                          processingTime |-> result[w]["processing_time"].v,
                          model |-> result[w]["model"].v,
                          completedAt |-> clock])
            IN  /\ store' = redis_setex(store, jd.id, jd)
                /\ Return(w)
       ELSE /\ Raise(w, "KeyError")
            /\ UNCHANGED <<store, job_data, result, persisted, trace>>
    /\ UNCHANGED <<queue, detect_calls, clock, pushed,
                   _SEQ, sink, faults, model_session, input_eval, evalVars, guardVars, policyVars, threadVars>>

\* process_job: except Exception: 'failed' is persisted
FailureHandler(w) ==
    /\ pc[w] = "handler"
    /\ LET jd == DictUpdate(job_data[w],
                    [status |-> "failed", error |-> exc[w], failedAt |-> clock])
       IN  store' = redis_setex(store, jd.id, jd)
    /\ Return(w)
    /\ UNCHANGED <<queue, detect_calls, clock, pushed,
                   _SEQ, sink, faults, model_session, input_eval, evalVars, guardVars, policyVars, threadVars>>

WorkerStep(w) ==
    \/ Brpop(w)
    \/ IdempotencyCheck(w)
    \/ PersistProcessing(w)
    \/ InputPolicyGate(w)
    \/ ArtifactCheck(w)
    \/ RunInference(w)
    \/ OutputPolicyGate(w)
    \/ PersistCompleted(w)
    \/ FailureHandler(w)

InitPolicyDefault ==
    /\ environ = EmptyDict
    /\ files = EmptyDict
    /\ phase = "running"
    /\ policy_bundle = load_policy_bundle(EmptyDict, EmptyDict).bundle
    /\ policy_digest = load_policy_bundle(EmptyDict, EmptyDict).digest
    /\ startup_exc = ""
    /\ input_eval = NoInputEval

InitJobs ==
    /\ queue = <<>>
    /\ store = EmptyDict
    /\ pc = [w \in Workers |-> "brpop"]
    /\ job_data = [w \in Workers |-> EmptyDict]
    /\ result = [w \in Workers |-> EmptyDict]
    /\ exc = [w \in Workers |-> ""]
    /\ persisted = [w \in Workers |-> FALSE]
    /\ _SEQ = [w \in Workers |-> 0]
    /\ sink = [w \in Workers |-> <<>>]
    /\ detect_calls = [j \in JobIds |-> 0]
    /\ clock = 0
    /\ pushed = 0
    /\ faults = 0
    /\ trace = [w \in Workers |-> <<>>]

\* No evaluation or verification is on record
InitEval ==
    /\ output_eval = None
    /\ redact_eval = None
    /\ verify_eval = None
    /\ attest_eval = None
    /\ heap_eval = None
    /\ emit_eval = None

\* sitecustomize.py has not been imported
InitNoGuard ==
    /\ allowed_ips = {}
    /\ connect_patched = FALSE
    /\ resolver = {}
    /\ connect_eval = None

Threads == {"t1", "t2"}

InitThreads ==
    /\ emits = 0
    /\ tpc = [t \in Threads |-> "idle"]
    /\ treg = [t \in Threads |-> 0]
    /\ tseq = [t \in Threads |-> 0]

Init ==
    /\ InitPolicyDefault
    /\ InitJobs
    /\ InitThreads
    /\ InitEval
    /\ InitNoGuard
    /\ model_session \in {"none", "yolo_nas_l"}

Next ==
    \/ \E e \in Envelopes : Enqueue(e)
    \/ \E w \in Workers : WorkerStep(w)

Spec == Init /\ [][Next]_vars

(***************************************************************************)
(* Infrastructure faults: a Redis call or the print of an audit line       *)
(* raises.  MaxFaults bounds how many are injected.                        *)
(***************************************************************************)
Fault ==
    /\ faults < MaxFaults
    /\ faults' = faults + 1

\* A worker loop without its except clause: the exception ends the task
job_worker_no_except == "crashed"

\* job_worker: except Exception: log, sleep(1), and the while loop goes on
job_worker_except == "sleep"

\* redis GET raises inside the try block
GetRaises(w) ==
    /\ pc[w] = "get"
    /\ Fault
    /\ Raise(w, "ConnectionError")
    /\ UNCHANGED <<queue, store, job_data, result, persisted, detect_calls, clock, pushed, trace,
                   _SEQ, sink, model_session, input_eval, evalVars, guardVars, policyVars, threadVars>>

\* the SETEX of 'processing' raises: job_data is updated, the store is not
PersistProcessingRaises(w) ==
    /\ pc[w] = "setex_processing"
    /\ Fault
    /\ job_data' = [job_data EXCEPT ![w] =
                      DictUpdate(@, [status |-> "processing", processing_started |-> clock])]
    /\ Raise(w, "ConnectionError")
    /\ UNCHANGED <<queue, store, result, persisted, detect_calls, clock, pushed, trace,
                   _SEQ, sink, model_session, input_eval, evalVars, guardVars, policyVars, threadVars>>

\* emit_audit's print raises: the counter has moved, no line is written
AuditRaises(w) ==
    /\ pc[w] \in {"input_policy", "output_policy"}
    /\ Fault
    /\ _SEQ' = [_SEQ EXCEPT ![w] = @ + 1]
    /\ Raise(w, "BrokenPipeError")
    /\ Called(w, IF pc[w] = "input_policy" THEN <<"evaluate_input_policy">>
                                            ELSE <<"evaluate_output_policy">>)
    /\ UNCHANGED <<queue, store, job_data, result, persisted, detect_calls, clock, pushed,
                   sink, model_session, input_eval, evalVars, guardVars, policyVars, threadVars>>

\* the SETEX of 'completed' raises: job_data is updated, the store is not
PersistCompletedRaises(w) ==
    /\ pc[w] = "setex_completed"
    /\ {"processing_time", "model"} \subseteq DOMAIN result[w]
    /\ Fault
    /\ job_data' = [job_data EXCEPT ![w] =
                      DictUpdate(@,
                         [status |-> "completed",
                          cats |-> dict_get_or(result[w], "cats", PyInt(0)).v,
                          confidence |-> dict_get_or(result[w], "confidence", PyFloat(<<"0",".","0">>)).v,
                          processingTime |-> result[w]["processing_time"].v,
                          model |-> result[w]["model"].v,
                          completedAt |-> clock])]
    /\ Raise(w, "ConnectionError")
    /\ UNCHANGED <<queue, store, result, persisted, detect_calls, clock, pushed, trace,
                   _SEQ, sink, model_session, input_eval, evalVars, guardVars, policyVars, threadVars>>

\* the handler's own SETEX raises: the exception leaves process_job for job_worker
HandlerRaises(w) ==
    /\ pc[w] = "handler"
    /\ Fault
    /\ pc' = [pc EXCEPT ![w] = job_worker_except]
    /\ job_data' = [job_data EXCEPT ![w] = EmptyDict]
    /\ result' = [result EXCEPT ![w] = EmptyDict]
    /\ exc' = [exc EXCEPT ![w] = ""]
    /\ persisted' = [persisted EXCEPT ![w] = FALSE]
    /\ trace' = [trace EXCEPT ![w] = <<>>]
    /\ UNCHANGED <<queue, store, detect_calls, clock, pushed,
                   _SEQ, sink, model_session, input_eval, evalVars, guardVars, policyVars, threadVars>>

\* job_worker: brpop raises
BrpopRaises(w) ==
    /\ pc[w] = "brpop"
    /\ Fault
    /\ pc' = [pc EXCEPT ![w] = job_worker_except]
    /\ UNCHANGED <<queue, store, job_data, result, exc, persisted, detect_calls, clock, pushed, trace,
                   _SEQ, sink, model_session, input_eval, evalVars, guardVars, policyVars, threadVars>>

\* job_worker: except Exception: sleep(1), then the next brpop
Backoff(w) ==
    /\ pc[w] = "sleep"
    /\ pc' = [pc EXCEPT ![w] = "brpop"]
    /\ UNCHANGED <<queue, store, job_data, result, exc, persisted, detect_calls, clock, pushed, trace,
                   _SEQ, sink, faults, model_session, input_eval, evalVars, guardVars, policyVars, threadVars>>

FaultStep(w) ==
    \/ GetRaises(w)
    \/ PersistProcessingRaises(w)
    \/ AuditRaises(w)
    \/ PersistCompletedRaises(w)
    \/ HandlerRaises(w)
    \/ BrpopRaises(w)
    \/ Backoff(w)

\* job_worker: json.loads(job_raw) raises, or process_job raises KeyError at its
\* first two lines, outside its try block
BrpopMalformed(w) ==
    /\ pc[w] = "brpop"
    /\ queue # <<>>
    /\ ~WellFormed(queue[Len(queue)])
    /\ queue' = SubSeq(queue, 1, Len(queue) - 1)
    /\ pc' = [pc EXCEPT ![w] = job_worker_except]
    /\ UNCHANGED <<store, job_data, result, exc, persisted, detect_calls, clock, pushed, trace,
                   _SEQ, sink, faults, model_session, input_eval, evalVars, guardVars,
                   policyVars, threadVars>>

NextFaults ==
    \/ \E e \in Envelopes : Enqueue(e)
    \/ \E w \in Workers : WorkerStep(w)
    \/ \E w \in Workers : FaultStep(w)

SpecFaults == Init /\ [][NextFaults]_vars

(***************************************************************************)
(* One worker loop under everything that can go wrong in it: Redis calls   *)
(* and print raising, and list items that are not job envelopes            *)
(***************************************************************************)
NextWorker ==
    \/ \E e \in Envelopes \cup Malformed : Enqueue(e)
    \/ WorkerStep(Main)
    \/ FaultStep(Main)
    \/ BrpopMalformed(Main)

SpecWorker == Init /\ [][NextWorker]_vars

(***************************************************************************)
(* Start-up under every configuration of the bundle source, and calls of   *)
(* evaluate_input_policy on sample jobs                                    *)
(***************************************************************************)
\* The states of the bundle file: absent, or holding one of the blobs
FileSystems == {EmptyDict} \cup { (PolicyPath :> b) : b \in Blobs }

\* POLICY_BUNDLE_SIGNATURE: a hex string, here the tuple of what it was computed from
WrongSignature == <<"deadbeef">>

Environments(fs) ==
    LET paths == {EmptyDict, [POLICY_BUNDLE_PATH |-> PolicyPath]}
        sigs == {EmptyDict,
                 [POLICY_BUNDLE_HMAC_KEY |-> PolicyKey, POLICY_BUNDLE_SIGNATURE |-> WrongSignature]}
                \cup { [POLICY_BUNDLE_HMAC_KEY |-> PolicyKey,
                        POLICY_BUNDLE_SIGNATURE |-> hmac_sha256(PolicyKey, fs[p])] : p \in DOMAIN fs }
    IN  { p @@ g : p \in paths, g \in sigs }

SampleSizes ==
    { PyInt(n) : n \in {0, SmallSize, MaxUploadSize - 1, MaxUploadSize, MaxUploadSize + 1, LargeSize} }
    \cup { PyFloat(<<"3","e","7">>), PyStr(<<"3","1","4","5","7","2","8","0">>), None }

SampleJobs ==
    { [id |-> "j1", filename |-> "cat.jpg"] }
    \cup { [id |-> "j1", filename |-> "cat.jpg", size |-> z] : z \in SampleSizes }

InitPolicy ==
    /\ files \in FileSystems
    /\ environ \in Environments(files)
    /\ phase = "boot"
    /\ policy_bundle = None
    /\ policy_digest = None
    /\ startup_exc = ""
    /\ input_eval = NoInputEval
    /\ InitJobs
    /\ InitThreads
    /\ InitEval
    /\ InitNoGuard
    /\ model_session = "none"

\* app.py startup(): policy_bundle, policy_digest = load_policy_bundle()
Startup ==
    /\ phase = "boot"
    /\ LET loaded == load_policy_bundle(environ, files)
       IN  IF loaded.raised
           THEN /\ phase' = "aborted"
                /\ startup_exc' = loaded.exc
                /\ UNCHANGED <<policy_bundle, policy_digest>>
           ELSE /\ phase' = "running"
                /\ policy_bundle' = loaded.bundle
                /\ policy_digest' = loaded.digest
                /\ UNCHANGED startup_exc
    /\ UNCHANGED <<environ, files, input_eval, evalVars, guardVars, jobVars, _SEQ, sink, faults, model_session, threadVars>>

\* A call of evaluate_input_policy(job, policy_bundle)
EvalInput(job) ==
    /\ phase = "running"
    /\ NoCallYet
    /\ input_eval' = [job |-> job, decision |-> evaluate_input_policy(job, policy_bundle)]
    /\ UNCHANGED <<policyVars, jobVars, _SEQ, sink, faults, model_session, threadVars,
                   evalVars, guardVars>>

\* "X" * n
Padding(n) == [i \in 1..n |-> "X"]

\* The length of the oversized field of test_output_policy_redacts_large_payload
BigLen == 2048 + 100

SampleCats ==
    {EmptyDict}
    \cup { [cats |-> PyInt(n)] : n \in {2, 5, 6, 20, 21} }
    \cup { [cats |-> PyFloat(<<"2","1",".","0">>)] }

SampleConfidence == {EmptyDict, [confidence |-> PyFloat(<<"0",".","9">>)]}

SampleModel ==
    { [processing_time |-> PyStr(<<"1",".","5","2","s">>), model |-> PyStr(m)] :
        m \in { <<"m","o","c","k">>, <<"d","a","t","a",":","x">> } }
    \cup { [model |-> PyStr(<<"m","o","c","k">>)],
            [processing_time |-> PyStr(Padding(BigLen)), model |-> PyStr(<<"m","o","c","k">>)] }

SampleDebug ==
    {EmptyDict}
    \cup { [debug |-> PyStr(d)] :
             d \in { <<"o","k">>, <<"i","V","B","O","R","w","0">>, Padding(40), Padding(BigLen) } }

SampleImage == {EmptyDict, [image |-> PyStr(<<"/","9","j","/","4","A">>)]}

\* Results as detect_cats returns them, and with fields it should never carry
SampleResults ==
    { c @@ f @@ m @@ d @@ i :
        c \in SampleCats, f \in SampleConfidence, m \in SampleModel,
        d \in SampleDebug, i \in SampleImage }

\* A call of evaluate_output_policy(output, policy_bundle)
EvalOutput(output) ==
    /\ phase = "running"
    /\ NoCallYet
    /\ output_eval' = [output |-> output,
                       decision |-> evaluate_output_policy(output, policy_bundle)]
    /\ UNCHANGED <<policyVars, input_eval, jobVars, _SEQ, sink, faults, model_session, threadVars,
                   redact_eval, verify_eval, attest_eval, heap_eval, emit_eval, guardVars>>

\* _redact_output applied to an output, and again to what it returned
RedactTwice(output) ==
    /\ phase = "running"
    /\ NoCallYet
    /\ LET once == _redact_output(output, policy_bundle)
       IN  redact_eval' = [output |-> output, once |-> once,
                           twice |-> _redact_output(once, policy_bundle)]
    /\ UNCHANGED <<policyVars, input_eval, jobVars, _SEQ, sink, faults, model_session, threadVars,
                   output_eval, verify_eval, attest_eval, heap_eval, emit_eval, guardVars>>

\* The jobs the evaluators are run on as objects: no size, and a size over the ceiling
ObjectJobs == { job \in SampleJobs : "size" \in DOMAIN job => job.size = PyInt(LargeSize) }

\* The results they are run on: with a confidence, without an image
ObjectResults ==
    { output \in SampleResults : "confidence" \in DOMAIN output /\ "image" \notin DOMAIN output }

\* Both evaluators called on the same job, result and bundle objects, and once more
EvalOnObjects(job, output) ==
    /\ phase = "running"
    /\ NoCallYet
    /\ LET before == [job_data |-> job, output |-> output, bundle |-> policy_bundle]
           in1 == evaluate_input_policy_obj(before, "job_data", "bundle")
           out1 == evaluate_output_policy_obj(in1.heap, "output", "bundle")
           in2 == evaluate_input_policy_obj(out1.heap, "job_data", "bundle")
           out2 == evaluate_output_policy_obj(in2.heap, "output", "bundle")
       IN  heap_eval' = [before |-> before, after |-> out2.heap,
                         input |-> <<in1.decision, in2.decision>>,
                         output |-> <<out1, out2>>]
    /\ UNCHANGED <<policyVars, input_eval, jobVars, _SEQ, sink, faults, model_session, threadVars,
                   output_eval, redact_eval, verify_eval, attest_eval, emit_eval, guardVars>>

NextPolicy ==
    \/ Startup
    \/ \E job \in SampleJobs : EvalInput(job)
    \/ \E output \in SampleResults : EvalOutput(output)
    \/ \E output \in SampleResults : RedactTwice(output)

SpecPolicy == InitPolicy /\ [][NextPolicy]_vars

NextObjects ==
    \/ Startup
    \/ \E job \in ObjectJobs : \E output \in ObjectResults : EvalOnObjects(job, output)

\* Start-up, then the evaluators run on objects
SpecObjects == InitPolicy /\ [][NextObjects]_vars

(***************************************************************************)
(* emit_audit called from several threads of one process.  _SEQ += 1 is a  *)
(* load, an add and a store; the record then reads _SEQ again.             *)
(***************************************************************************)
MaxEmits == 3

\* _SEQ += 1: LOAD_GLOBAL _SEQ
EmitLoad(t) ==
    /\ tpc[t] = "idle"
    /\ emits < MaxEmits
    /\ emits' = emits + 1
    /\ treg' = [treg EXCEPT ![t] = _SEQ[Main]]
    /\ tpc' = [tpc EXCEPT ![t] = "store"]
    /\ UNCHANGED <<policyVars, input_eval, evalVars, guardVars, jobVars, _SEQ, sink, faults, model_session, tseq>>

\* _SEQ += 1: INPLACE_ADD, STORE_GLOBAL _SEQ
EmitStore(t) ==
    /\ tpc[t] = "store"
    /\ _SEQ' = [_SEQ EXCEPT ![Main] = treg[t] + 1]
    /\ tpc' = [tpc EXCEPT ![t] = "build"]
    /\ UNCHANGED <<policyVars, input_eval, evalVars, guardVars, jobVars, sink, faults, model_session, emits, treg, tseq>>

\* enriched = {..., "sequence": _SEQ, **data}
EmitBuild(t) ==
    /\ tpc[t] = "build"
    /\ tseq' = [tseq EXCEPT ![t] = _SEQ[Main]]
    /\ tpc' = [tpc EXCEPT ![t] = "print"]
    /\ UNCHANGED <<policyVars, input_eval, evalVars, guardVars, jobVars, _SEQ, sink, faults, model_session, emits, treg>>

\* print(json.dumps({"audit": enriched}))
EmitPrint(t) ==
    /\ tpc[t] = "print"
    /\ sink' = [sink EXCEPT ![Main] =
                  Append(@, audit_record("thread_event", tseq[t], clock, [thread |-> t]))]
    /\ tpc' = [tpc EXCEPT ![t] = "idle"]
    /\ UNCHANGED <<policyVars, input_eval, evalVars, guardVars, jobVars, _SEQ, faults, model_session, emits, treg, tseq>>

\* The event names callers pass
Events == {"input_policy_decision", "output_policy_decision"}

\* The data mappings callers pass: those of process_job, and ones that carry a key
\* the emitter also sets
CallerData ==
    LET plain == [job_id |-> "j1", policy_digest |-> _sha256_hexdigest("DEFAULT_MIN")]
    IN  {plain}
        \cup { [sequence |-> n] @@ plain : n \in {0, 7} }
        \cup { [event |-> "forged_event"] @@ plain,
               [timestamp |-> 0] @@ plain,
               [simulated |-> FALSE] @@ plain }

\* emit_audit(event, data), its statements run one after the other
EmitCall(event, data) ==
    /\ emits < MaxEmits
    /\ emits' = emits + 1
    /\ _SEQ' = [_SEQ EXCEPT ![Main] = @ + 1]
    /\ LET enriched == audit_record(event, _SEQ[Main] + 1, clock, data)
       IN  /\ sink' = [sink EXCEPT ![Main] = Append(@, enriched)]
           /\ emit_eval' = [event |-> event, data |-> data, _SEQ |-> _SEQ[Main] + 1,
                            now |-> clock, enriched |-> enriched]
    /\ UNCHANGED <<policyVars, input_eval, jobVars, faults, model_session, tpc, treg, tseq,
                   output_eval, redact_eval, verify_eval, attest_eval, heap_eval, guardVars>>

NextEmit ==
    \E event \in Events : \E data \in CallerData : EmitCall(event, data)

\* One caller after another in emit_audit
SpecEmit == Init /\ [][NextEmit]_vars

\* A record as read back from the sink, without its signature
record_body(record) == [k \in DOMAIN record \ {"signature"} |-> record[k]]

\* The signature recomputed over a record read back from the sink
recompute_signature(record) == sign_record(record_body(record))

\* Values a field of a record can be overwritten with
TamperValues(k) ==
    CASE k \in {"sequence", "timestamp"} -> 0..3
      [] k = "simulated" -> BOOLEAN
      [] OTHER -> {"thread_event", "forged_event", "t1", "t2"}

\* The records that differ from a record in one body field: one value changed,
\* one field added, or one field removed; the stored signature is kept
Tamperings(record) ==
    LET body == DOMAIN record \ {"signature"}
    IN  (UNION { { [record EXCEPT ![k] = v] : v \in TamperValues(k) } : k \in body }
             \ {record})
        \cup { (k :> "forged") @@ record : k \in ({"job_id", "note"} \ DOMAIN record) }
        \cup { [f \in DOMAIN record \ {k} |-> record[f]] : k \in body }

\* An auditor recomputes the signature of a printed record and of an altered copy
VerifyRecord(i, altered) ==
    /\ NoCallYet
    /\ verify_eval' = [record |-> sink[Main][i],
                       altered |-> altered,
                       recomputed |-> recompute_signature(sink[Main][i]),
                       recomputed_altered |-> recompute_signature(altered)]
    /\ UNCHANGED <<policyVars, input_eval, jobVars, _SEQ, sink, faults, model_session, threadVars,
                   output_eval, redact_eval, attest_eval, heap_eval, emit_eval, guardVars>>

NextAudit ==
    \/ \E t \in Threads : EmitLoad(t) \/ EmitStore(t) \/ EmitBuild(t) \/ EmitPrint(t)
    \/ \E i \in 1..Len(sink[Main]) : \E altered \in Tamperings(sink[Main][i]) :
           VerifyRecord(i, altered)

SpecAudit == Init /\ [][NextAudit]_vars

(***************************************************************************)
(* attestation.py: the development verifier and the evidence builder       *)
(***************************************************************************)
\* str.lower() on the values the flags are given
lower(s) ==
    CASE s \in {"TRUE", "True"} -> "true"
      [] s \in {"FALSE", "False"} -> "false"
      [] OTHER -> s

\* os.getenv(name, default)
getenv_or(env, name, default) == IF name \in DOMAIN env THEN env[name] ELSE default

AttestationEvidence(image_digest, digest, simulated, timestamp, nonce) ==
    [image_digest |-> image_digest, policy_digest |-> digest,
     simulated |-> simulated, timestamp |-> timestamp, nonce |-> nonce]

\* The verifier with its two tests in the other order
verify_digest_first(expected_policy_digest, evidence) ==
    IF evidence.policy_digest # expected_policy_digest
    THEN [ok |-> FALSE, reason |-> "policy digest mismatch"]
    ELSE IF ~evidence.simulated
    THEN [ok |-> FALSE, reason |-> "non-simulated evidence in dev verifier"]
    ELSE [ok |-> TRUE, reason |-> "ok"]

\* DevAttestationVerifier(expected_policy_digest).verify(evidence)
verify(expected_policy_digest, evidence) ==
    IF ~evidence.simulated
    THEN [ok |-> FALSE, reason |-> "non-simulated evidence in dev verifier"]
    ELSE IF evidence.policy_digest # expected_policy_digest
    THEN [ok |-> FALSE, reason |-> "policy digest mismatch"]
    ELSE [ok |-> TRUE, reason |-> "ok"]

\* build_dev_evidence(policy_digest) when the clock reads now and uuid4 draws nonce
build_dev_evidence(env, digest, now, nonce) ==
    AttestationEvidence(getenv_or(env, "IMAGE_DIGEST", "dev-local"),
                        digest,
                        lower(getenv_or(env, "SIMULATED_ATTESTATION", "true")) = "true",
                        now, nonce)

\* The digests of the bundles a deployment may run
SampleDigests == { _sha256_hexdigest(b) : b \in {"DEFAULT_MIN", "STRICT_MIN", "SPARSE_MIN"} }

Nonces == {"uuid-1", "uuid-2"}

\* A generator that may hand out a value it has handed out before
uuid4_repeating(drawn) == Nonces

\* str(uuid.uuid4()): a value not drawn before (122 random bits, taken as fresh)
uuid4(drawn) == Nonces \ drawn

\* Evidence as a peer may present it, whatever built it
SampleEvidence ==
    { AttestationEvidence(i, d, s, 0, n) :
        i \in {"dev-local", "sha256:image"}, d \in SampleDigests, s \in BOOLEAN, n \in Nonces }

AttestEnvironments ==
    { s @@ i :
        s \in {EmptyDict} \cup { [SIMULATED_ATTESTATION |-> v] : v \in {"true", "TRUE", "false", "0"} },
        i \in {EmptyDict, [IMAGE_DIGEST |-> "sha256:image"]} }

InitAttest ==
    /\ environ \in AttestEnvironments
    /\ files = EmptyDict
    /\ phase = "running"
    /\ policy_bundle = _default_policy_bundle
    /\ policy_digest = _sha256_hexdigest(json_dumps_bundle(_default_policy_bundle))
    /\ startup_exc = ""
    /\ input_eval = NoInputEval
    /\ InitJobs
    /\ InitThreads
    /\ InitEval
    /\ InitNoGuard
    /\ model_session = "none"

\* A call of DevAttestationVerifier(expected).verify(evidence)
VerifyEvidence(expected, evidence) ==
    /\ NoCallYet
    /\ attest_eval' = [expected |-> expected, evidence |-> evidence,
                       result |-> verify(expected, evidence)]
    /\ UNCHANGED <<policyVars, input_eval, jobVars, _SEQ, sink, faults, model_session, threadVars,
                   output_eval, redact_eval, verify_eval, heap_eval, emit_eval, guardVars>>

\* build_dev_evidence(d) called twice, and DevAttestationVerifier(expected).verify
\* called on the first evidence
BuildAndVerify(expected, d) ==
    /\ NoCallYet
    /\ \E n1 \in uuid4({}) : \E n2 \in uuid4({n1}) :
           LET evidence == build_dev_evidence(environ, d, clock, n1)
           IN  attest_eval' = [expected |-> expected, evidence |-> evidence,
                               result |-> verify(expected, evidence),
                               built |-> d,
                               again |-> build_dev_evidence(environ, d, clock, n2)]
    /\ UNCHANGED <<policyVars, input_eval, jobVars, _SEQ, sink, faults, model_session, threadVars,
                   output_eval, redact_eval, verify_eval, heap_eval, emit_eval, guardVars>>

NextAttest ==
    \/ \E expected \in SampleDigests : \E evidence \in SampleEvidence :
           VerifyEvidence(expected, evidence)
    \/ \E expected, d \in SampleDigests : BuildAndVerify(expected, d)
    \/ \E expected, d \in SampleDigests : \E n \in Nonces :
           VerifyEvidence(expected, build_dev_evidence(environ, d, clock, n))

SpecAttest == InitAttest /\ [][NextAttest]_vars

(***************************************************************************)
(* sitecustomize.py: the egress guard around socket.socket.connect         *)
(***************************************************************************)
\* The strings socket.inet_aton accepts
IPv4Literals == {"127.0.0.1", "10.0.0.5", "93.184.216.34"}

\* socket.inet_aton(host) returns instead of raising OSError
inet_aton(host) == host \in IPv4Literals

\* What the resolver answers for the names it knows
DnsTable ==
    [h \in {"localhost", "redis", "example.com"} |->
        CASE h = "localhost" -> "127.0.0.1"
          [] h = "redis" -> "10.0.0.5"
          [] h = "example.com" -> "93.184.216.34"]

\* socket.gethostbyname(host) when the names in res resolve: IPv4 only, so an IPv6
\* literal raises like an unknown name
gethostbyname(res, host) ==
    IF host \in IPv4Literals THEN [ok |-> TRUE, ip |-> host]
    ELSE IF host \in res THEN [ok |-> TRUE, ip |-> DnsTable[host]]
    ELSE [ok |-> FALSE, ip |-> ""]

\* os.getenv("EGRESS_GUARD_DISABLED", "false").lower() != "true"
guard_enabled(env) == lower(getenv_or(env, "EGRESS_GUARD_DISABLED", "false")) # "true"

\* allowed_ips as the import of sitecustomize leaves it
startup_allowed_ips(res) ==
    {"127.0.0.1", "::1"}
    \cup (IF gethostbyname(res, "redis").ok THEN {gethostbyname(res, "redis").ip} ELSE {})

\* _guard_connect(self, address): "connect" when _orig_connect is reached, else the
\* exception it raises
_guard_connect(address, allowed, res) ==
    IF Len(address) # 2 THEN "ValueError"
    ELSE LET host == address[1]
             looked_up == gethostbyname(res, host)
         IN  IF inet_aton(host)
             THEN IF host \in allowed THEN "connect" ELSE "PermissionError"
             ELSE IF ~looked_up.ok THEN "PermissionError"
             ELSE IF looked_up.ip \in allowed THEN "connect" ELSE "PermissionError"

\* socket.socket.connect as the process sees it
socket_connect(patched, address, allowed, res) ==
    IF patched THEN _guard_connect(address, allowed, res) ELSE "connect"

\* (host, port) addresses, and the 4-tuples of AF_INET6 sockets
SampleAddresses ==
    { <<h, 6379>> : h \in {"127.0.0.1", "localhost", "redis", "10.0.0.5", "example.com",
                            "93.184.216.34", "nohost.invalid", "::1"} }
    \cup { <<"::1", 6379, 0, 0>>, <<"2001:db8::1", 443, 0, 0>> }

\* The names DNS may resolve at a given moment; localhost always does
Resolvers == { {"localhost"} \cup r : r \in SUBSET {"redis", "example.com"} }

EgressEnvironments ==
    {EmptyDict} \cup { [EGRESS_GUARD_DISABLED |-> v] : v \in {"true", "TRUE", "false", "1"} }

\* The process after the interpreter imported sitecustomize
InitEgress ==
    /\ environ \in EgressEnvironments
    /\ resolver \in Resolvers
    /\ connect_patched = guard_enabled(environ)
    /\ allowed_ips = IF guard_enabled(environ) THEN startup_allowed_ips(resolver) ELSE {}
    /\ connect_eval = None
    /\ files = EmptyDict
    /\ phase = "running"
    /\ policy_bundle = _default_policy_bundle
    /\ policy_digest = _sha256_hexdigest(json_dumps_bundle(_default_policy_bundle))
    /\ startup_exc = ""
    /\ input_eval = NoInputEval
    /\ InitJobs
    /\ InitThreads
    /\ InitEval
    /\ model_session = "none"

\* DNS starts or stops resolving a name after start-up
ResolverChanges(r) ==
    /\ connect_eval = None
    /\ r # resolver
    /\ resolver' = r
    /\ UNCHANGED <<policyVars, input_eval, jobVars, _SEQ, sink, faults, model_session, threadVars,
                   evalVars, allowed_ips, connect_patched, connect_eval>>

\* A call of socket.socket.connect(address)
Connect(address) ==
    /\ connect_eval = None
    /\ connect_eval' = [address |-> address,
                        outcome |-> socket_connect(connect_patched, address, allowed_ips, resolver)]
    /\ UNCHANGED <<policyVars, input_eval, jobVars, _SEQ, sink, faults, model_session, threadVars,
                   evalVars, allowed_ips, connect_patched, resolver>>

NextEgress ==
    \/ \E r \in Resolvers : ResolverChanges(r)
    \/ \E address \in SampleAddresses : Connect(address)

SpecEgress == InitEgress /\ [][NextEgress]_vars

(***************************************************************************)
(* One worker while its process is not killed and the store answers: the   *)
(* audit sink may still fail.  The process keeps running, so when it can   *)
(* take a step of job_worker or process_job it eventually takes one.       *)
(***************************************************************************)
NextLive ==
    \/ \E e \in Envelopes : Enqueue(e)
    \/ WorkerStep(Main)
    \/ AuditRaises(Main)

SpecLive == Init /\ [][NextLive]_vars /\ WF_vars(WorkerStep(Main))

(***************************************************************************)
(* The service from start-up on: startup() loads the bundle from whatever  *)
(* the environment names, then the worker task runs.                       *)
(***************************************************************************)
\* The envelopes of one job id
ServiceEnvelopes == { e \in Envelopes : e.id = "j1" }

NextService ==
    \/ Startup
    \/ (phase = "running" /\ \E e \in ServiceEnvelopes : Enqueue(e))
    \/ (phase = "running" /\ WorkerStep(Main))

SpecService == InitPolicy /\ [][NextService]_vars

(***************************************************************************)
(* Time passing on the store: a key written by SETEX counts its seconds    *)
(* down and is deleted when they are used up.                              *)
(***************************************************************************)
TickSeconds == JobTTL \div 2

\* TickSeconds go by
Tick ==
    /\ DOMAIN store # {}
    /\ clock' = clock + TickSeconds
    /\ LET alive == { j \in DOMAIN store : store[j].ttl < 0 \/ store[j].ttl > TickSeconds }
       IN  store' = [j \in alive |->
                        [store[j] EXCEPT !.ttl = IF @ < 0 THEN @ ELSE @ - TickSeconds]]
    /\ UNCHANGED <<queue, pc, job_data, result, exc, persisted, detect_calls, pushed, trace,
                   _SEQ, sink, faults, model_session, input_eval, evalVars, guardVars,
                   policyVars, threadVars>>

NextExpiry ==
    \/ \E e \in ServiceEnvelopes : Enqueue(e)
    \/ WorkerStep(Main)
    \/ Tick

\* One worker, the store answering, and time passing
SpecExpiry == Init /\ [][NextExpiry]_vars

(***************************************************************************)
(* A worker process killed in the middle of a job, another worker and the  *)
(* store living on, and time passing on the store.                         *)
(***************************************************************************)
\* The worker is between its write of 'processing' and a terminal write
MidJob(w) ==
    /\ pc[w] \in {"input_policy", "exists", "detect", "output_policy", "setex_completed",
                  "handler"}
    /\ persisted[w]

\* The process of worker w is killed: it takes no further step
Kill(w) ==
    /\ MidJob(w)
    /\ pc' = [pc EXCEPT ![w] = "killed"]
    /\ UNCHANGED <<queue, store, job_data, result, exc, persisted, detect_calls, clock, pushed,
                   trace, _SEQ, sink, faults, model_session, input_eval, evalVars, guardVars,
                   policyVars, threadVars>>

NextKill ==
    \/ \E e \in ServiceEnvelopes : Enqueue(e)
    \/ \E w \in Workers : WorkerStep(w)
    \/ Kill(Main)
    \/ Tick

SpecKill == Init /\ [][NextKill]_vars

(***************************************************************************)
(* The claims                                                              *)
(***************************************************************************)
StatusOf(st, j) == IF j \in DOMAIN st THEN st[j].value.status ELSE "absent"

\* A worker is past the idempotency check of its delivery
PastCheck(w) ==
    pc[w] \in {"setex_processing", "input_policy", "exists", "detect",
               "output_policy", "setex_completed", "handler"}

C2_TerminalSticky ==
    [][\A j \in DOMAIN store :
         store[j].value.status \in {"completed", "failed"}
         => (j \in DOMAIN store' /\ store'[j] = store[j])]_vars

\* C3: detect_cats runs at most once per job id.
C3_InferenceAtMostOnce == \A j \in JobIds : detect_calls[j] <= 1

\* C4: two workers are never both past the idempotency check for the same job id.
C4_AtMostOneClaims ==
    \A w1, w2 \in Workers :
        (w1 # w2 /\ PastCheck(w1) /\ PastCheck(w2)) => job_data[w1].id # job_data[w2].id

\* C5: when process_job is left through its exception handler after 'processing'
\* was persisted, the persisted status is 'failed' and the error field holds the
\* exception's message.
C5_NeverStuckProcessing ==
    [][\A w \in Workers :
         (pc[w] = "handler" /\ pc'[w] # "handler" /\ persisted[w])
         => (/\ StatusOf(store', job_data[w].id) = "failed"
             /\ store'[job_data[w].id].value.error = exc[w])]_vars

\* C6: the sequence numbers of the records emitted by concurrent callers are pairwise
\* distinct, increase along the sink, and are exactly 1..N once every caller is back.
C6_SequenceGapFree ==
    LET out == sink[Main] IN
    /\ \A i, k \in 1..Len(out) : i < k => out[i].sequence < out[k].sequence
    /\ (\A t \in Threads : tpc[t] = "idle")
         => { out[i].sequence : i \in 1..Len(out) } = 1..Len(out)

SignatureConfigured == "POLICY_BUNDLE_SIGNATURE" \in DOMAIN environ

\* The bundle file is there and parses
FileParses ==
    /\ getenv(environ, "POLICY_BUNDLE_PATH") \in DOMAIN files
    /\ utf8_decode(files[PolicyPath]).ok
    /\ json_loads(files[PolicyPath]).ok

\* C7: with a signature configured for a bundle file that parses, start-up succeeds
\* with the file's bundle if the signature is HMAC(key, raw bytes), and fails with a
\* ValueError otherwise.
C7_SignatureEnforced ==
    (phase # "boot" /\ SignatureConfigured /\ FileParses)
    => IF environ["POLICY_BUNDLE_SIGNATURE"]
            = hmac_sha256(environ["POLICY_BUNDLE_HMAC_KEY"], files[PolicyPath])
       THEN phase = "running" /\ policy_bundle = json_loads(files[PolicyPath]).value
       ELSE phase = "aborted" /\ startup_exc = "ValueError"

\* C8: with no signature configured, load_policy_bundle returns a bundle and a
\* digest, whatever the state of the bundle source.
C8_LoaderNeverRaises ==
    (phase # "boot" /\ ~SignatureConfigured)
    => (phase = "running" /\ policy_bundle # None /\ policy_digest # None)

\* C9: the digest is the hash of the bytes of the bundle in effect: of the raw file
\* bytes when the file parsed, of the default bundle's canonical serialization when
\* the default bundle is returned (no path, missing file, parse failure).
C9_DigestMatchesBundle ==
    phase = "running"
    => IF FileParses
       THEN /\ policy_bundle = json_loads(files[PolicyPath]).value
            /\ policy_digest = <<"sha256", files[PolicyPath]>>
       ELSE /\ policy_bundle = _default_policy_bundle
            /\ policy_digest = <<"sha256", "DEFAULT_MIN">>

\* C9 witness: a file that does not parse was loaded; the default bundle is in effect.
C9_Witness ==
    /\ phase = "running"
    /\ getenv(environ, "POLICY_BUNDLE_PATH") \in DOMAIN files
    /\ files[PolicyPath] \in {"TRUNCATED", "EMPTY"}
    /\ policy_bundle = _default_policy_bundle

C11_CompliantResultAllowed ==
    output_eval # None =>
        LET o == output_eval.output
            limit == dict_get_or(policy_bundle, "max_response_size", DefaultMaxResponseSize)
            patterns == dict_get_or(policy_bundle, "forbidden_patterns", <<>>)
            max_cats == dict_get_or(policy_bundle, "max_cats", DefaultMaxCats)
            clean == \A k \in DOMAIN o : \A i \in 1..Len(patterns) :
                         o[k].t = "str" => ~Contains(patterns[i], o[k].v)
            few == "cats" \notin DOMAIN o \/ (o.cats.t = "int" /\ o.cats.v <= max_cats)
        IN  (serialized_len(o) <= limit /\ clean /\ few)
                => output_eval.decision = [action |-> "allow", reasons |-> <<>>,
                                           rule_ids |-> <<>>, redacted_output |-> None]

\* A full result with exactly max_cats cats was allowed under the default bundle
C11_Witness ==
    /\ output_eval # None
    /\ policy_bundle = _default_policy_bundle
    /\ DOMAIN output_eval.output = {"cats", "confidence", "processing_time", "model"}
    /\ output_eval.output.cats = PyInt(20)
    /\ output_eval.decision.action = "allow"

\* The three rules of the output policy, read off the bundle and the result
SizeViolated(o) ==
    serialized_len(o) > dict_get_or(policy_bundle, "max_response_size", DefaultMaxResponseSize)

PatternViolated(o) ==
    LET patterns == dict_get_or(policy_bundle, "forbidden_patterns", <<>>)
    IN  \E k \in DOMAIN o : \E i \in 1..Len(patterns) :
            o[k].t = "str" /\ Contains(patterns[i], o[k].v)

CatsViolated(o) ==
    /\ "cats" \in DOMAIN o
    /\ o.cats.t = "int"
    /\ o.cats.v > dict_get_or(policy_bundle, "max_cats", DefaultMaxCats)

Reports(d, reason, rule_id) ==
    d.action = "redact" /\ d.reasons = <<reason>> /\ d.rule_ids = <<rule_id>>

\* C12: the rules are applied in the order size, forbidden pattern, cat limit (an
\* integer count above max_cats) and only the first violated one is reported: a
\* Redact decision carries exactly one reason and one rule id, even when several
\* rules are violated at once.
C12_FirstViolatedRuleOnly ==
    output_eval # None =>
        LET o == output_eval.output
            d == output_eval.decision
        IN  /\ SizeViolated(o) => Reports(d, "response_too_large", "out.size")
            /\ (~SizeViolated(o) /\ PatternViolated(o))
                   => Reports(d, "forbidden_pattern", "out.forbidden_pattern")
            /\ (~SizeViolated(o) /\ ~PatternViolated(o) /\ CatsViolated(o))
                   => Reports(d, "cats_exceed_limit", "out.cats_limit")
            /\ d.action = "redact" => Len(d.reasons) = 1 /\ Len(d.rule_ids) = 1

\* A result violating all three rules was redacted for its size alone
C12_Witness ==
    /\ output_eval # None
    /\ SizeViolated(output_eval.output)
    /\ PatternViolated(output_eval.output)
    /\ CatsViolated(output_eval.output)
    /\ output_eval.decision.reasons = <<"response_too_large">>
    /\ output_eval.decision.rule_ids = <<"out.size">>

\* C13: every Redact decision, whatever rule caused it, carries a redacted payload
\* whose keys are the result's keys that lie in {cats, confidence, processing_time,
\* model}; every other key is gone.
C13_RedactionNarrows ==
    (output_eval # None /\ output_eval.decision.action = "redact") =>
        /\ output_eval.decision.redacted_output # None
        /\ DOMAIN output_eval.decision.redacted_output
               = DOMAIN output_eval.output \cap {"cats", "confidence", "processing_time", "model"}

\* A result with all four fields and two foreign ones was redacted to the four
C13_Witness ==
    /\ output_eval # None
    /\ output_eval.decision.action = "redact"
    /\ {"debug", "image"} \subseteq DOMAIN output_eval.output
    /\ DOMAIN output_eval.decision.redacted_output
           = {"cats", "confidence", "processing_time", "model"}

\* C14: redaction is idempotent: redacting a redacted result gives the same keys
\* and the same values as redacting once.
C14_RedactionIdempotent ==
    redact_eval # None => redact_eval.twice = redact_eval.once

\* A result that redaction changed was redacted twice with the same outcome
C14_Witness ==
    /\ redact_eval # None
    /\ redact_eval.once # redact_eval.output
    /\ redact_eval.once # EmptyDict
    /\ redact_eval.twice = redact_eval.once

InputDenial == "Input policy denied: ['file_too_large']"

Count(seq, x) == Cardinality({ i \in 1..Len(seq) : seq[i] = x })

\* C15: a delivery whose input policy decision is Deny leaves process_job with the
\* job persisted as 'failed' under a policy-denial message, without having called
\* detect_cats and without an output_policy_decision record; its gate emits exactly
\* one input_policy_decision record, carrying the Deny.
C15_DenyAbortsJob ==
    [][\A w \in Workers :
         LET id == job_data[w].id
             deny == evaluate_input_policy(job_data[w], policy_bundle).action = "deny"
         IN  /\ (/\ pc[w] \in {"handler", "setex_completed"}
                 /\ pc'[w] = "brpop"
                 /\ Count(trace[w], "evaluate_input_policy") > 0
                 /\ deny)
                => (/\ StatusOf(store', id) = "failed"
                    /\ store'[id].value.error = InputDenial
                    /\ Count(trace[w], "detect_cats") = 0
                    /\ Count(trace[w], "emit_audit:output_policy_decision") = 0
                    /\ Count(trace[w], "emit_audit:input_policy_decision") = 1
                    /\ sink'[w] = sink[w])
             /\ (pc[w] = "input_policy" /\ pc'[w] # "input_policy" /\ deny)
                => (/\ Len(sink'[w]) = Len(sink[w]) + 1
                    /\ sink'[w][Len(sink'[w])].event = "input_policy_decision"
                    /\ sink'[w][Len(sink'[w])].job_id = id
                    /\ sink'[w][Len(sink'[w])].decision.action = "deny")]_vars

\* A denied job is persisted as failed, and detect_cats never ran for its id
C15_Witness ==
    \E j \in JobIds :
        /\ StatusOf(store, j) = "failed"
        /\ store[j].value.error = InputDenial
        /\ detect_calls[j] = 0
        /\ \E w \in Workers : \E i \in 1..Len(sink[w]) :
               /\ sink[w][i].job_id = j
               /\ sink[w][i].event = "input_policy_decision"
               /\ sink[w][i].decision.action = "deny"

\* C16: a failing write of an audit line never fails the caller: no job is ever
\* persisted as 'failed' with the sink's error as its error.
C16_EmissionNeverFailsCaller ==
    \A j \in DOMAIN store :
        ~(store[j].value.status = "failed" /\ store[j].value.error = "BrokenPipeError")

\* C17: the signature covers every other field of the record: recomputed with the
\* same key over the record as printed it equals the stored signature, and over a
\* copy in which a field was changed, added or removed it differs from it.
C17_TamperEvident ==
    verify_eval # None =>
        /\ verify_eval.recomputed = verify_eval.record.signature
        /\ verify_eval.altered # verify_eval.record
               => verify_eval.recomputed_altered # verify_eval.record.signature

\* A record whose caller-supplied field was altered failed verification
C17_Witness ==
    /\ verify_eval # None
    /\ verify_eval.altered.signature = verify_eval.record.signature
    /\ "thread" \in DOMAIN verify_eval.altered
    /\ verify_eval.altered.thread # verify_eval.record.thread
    /\ verify_eval.recomputed_altered # verify_eval.record.signature
    /\ verify_eval.recomputed = verify_eval.record.signature

\* C18: verify answers ok exactly when the evidence is simulated and its policy digest
\* is the verifier's; otherwise it answers not-ok with a reason, non-simulated
\* evidence being reported before a digest mismatch.
C18_DevVerifier ==
    attest_eval # None =>
        LET e == attest_eval.evidence
            r == attest_eval.result
        IN  /\ r.ok <=> (e.simulated /\ e.policy_digest = attest_eval.expected)
            /\ ~e.simulated => r.reason = "non-simulated evidence in dev verifier"
            /\ (e.simulated /\ e.policy_digest # attest_eval.expected)
                   => r.reason = "policy digest mismatch"
            /\ r.reason # ""

\* Evidence that is neither simulated nor of the expected digest was refused as
\* non-simulated
C18_Witness ==
    /\ attest_eval # None
    /\ ~attest_eval.evidence.simulated
    /\ attest_eval.evidence.policy_digest # attest_eval.expected
    /\ ~attest_eval.result.ok
    /\ attest_eval.result.reason = "non-simulated evidence in dev verifier"

\* C19: no error ends the worker loop: whatever brpop, the decoding of the envelope
\* or process_job raises (a store failure inside the failure handler included), the
\* loop is never left; it sleeps, and from the sleep it goes back to brpop.
C19_WorkerLoopSurvives ==
    /\ [](\A w \in Workers : pc[w] # "crashed" /\ (pc[w] = "sleep" => ENABLED Backoff(w)))
    /\ [][\A w \in Workers :
             (pc[w] = "sleep" /\ pc'[w] # "sleep") => pc'[w] = "brpop"]_vars

\* The worker is backing off after its failure handler could not write: the record
\* is still 'processing'
C19_Witness ==
    /\ pc[Main] = "sleep"
    /\ faults > 0
    /\ \E j \in DOMAIN store : store[j].value.status = "processing"

\* The address a destination host stands for when connect is called: an IP literal
\* is itself, a name is what DNS answers for it now
StandsFor(host) ==
    IF host \in IPv4Literals \cup {"::1", "2001:db8::1"} THEN {host}
    ELSE IF host \in resolver THEN {DnsTable[host]}
    ELSE {}

\* C20: while the guard is installed, connect reaches the original connect only for a
\* destination that resolves to an address of the allow-list, and every other
\* destination, an unresolvable host included, gets a PermissionError; the guard is
\* installed exactly when EGRESS_GUARD_DISABLED is not "true".
C20_EgressGuard ==
    /\ connect_patched <=> ~("EGRESS_GUARD_DISABLED" \in DOMAIN environ
                              /\ environ["EGRESS_GUARD_DISABLED"] \in {"true", "TRUE"})
    /\ (connect_eval # None /\ connect_patched) =>
           LET to_allowed == StandsFor(connect_eval.address[1]) \cap allowed_ips # {}
           IN  /\ connect_eval.outcome = "connect" => to_allowed
               /\ ~to_allowed => connect_eval.outcome = "PermissionError"

\* What holds of the guard for (host, port) addresses, with the resolution the guard
\* itself performs (IPv4 literals and gethostbyname)
GuardOnPairs ==
    (connect_eval # None /\ connect_patched /\ Len(connect_eval.address) = 2) =>
        LET host == connect_eval.address[1]
            to_allowed == host # "::1" /\ StandsFor(host) \cap allowed_ips # {}
        IN  /\ connect_eval.outcome = "connect" <=> to_allowed
            /\ ~to_allowed <=> connect_eval.outcome = "PermissionError"

Terminal(st, j) == StatusOf(st, j) \in {"completed", "failed"}

\* C21: while no process is killed and the store accepts writes, a delivery that has
\* passed the idempotency check leads to a persisted 'completed' or 'failed' for its
\* job id, and process_job is never left after the check with any other status as
\* its last write.
C21_ReachesTerminal ==
    /\ \A w \in Workers : \A j \in JobIds :
           (pc[w] = "setex_processing" /\ job_data[w].id = j) ~> Terminal(store, j)
    /\ [][\A w \in Workers :
             (PastCheck(w) /\ pc'[w] = "brpop") => Terminal(store', job_data[w].id)]_vars

\* The worker is back at brpop, one job completed and one failed on a sink error
C21_Witness ==
    /\ pc[Main] = "brpop"
    /\ \E j \in DOMAIN store : store[j].value.status = "completed"
    /\ \E j \in DOMAIN store :
           store[j].value.status = "failed" /\ store[j].value.error = "BrokenPipeError"

\* The calls of a delivery that reaches the write of 'completed'
CompletedOrder ==
    <<"redis.get", "redis.setex", "evaluate_input_policy", "emit_audit:input_policy_decision",
      "os.path.exists", "detect_cats", "evaluate_output_policy",
      "emit_audit:output_policy_decision">>

\* C22: a delivery that persists 'completed' has made, in this order and once each,
\* the idempotency read, the write of 'processing', the input policy evaluation, the
\* emission of input_policy_decision, the artifact check, the inference, the output
\* policy evaluation and the emission of output_policy_decision; the two records are
\* the last two of its process's sink, in that order.
C22_CompletedOrder ==
    [][\A w \in Workers :
         (pc[w] = "setex_completed" /\ pc'[w] = "brpop") =>
             LET n == Len(sink[w])
                 id == job_data[w].id
             IN  /\ trace[w] = CompletedOrder
                 /\ StatusOf(store', id) = "completed"
                 /\ n >= 2
                 /\ sink[w][n - 1].event = "input_policy_decision"
                 /\ sink[w][n - 1].job_id = id
                 /\ sink[w][n].event = "output_policy_decision"
                 /\ sink[w][n].job_id = id
                 /\ sink[w][n].sequence = sink[w][n - 1].sequence + 1]_vars

\* A delivery has ended 'completed', its two decisions the last records of the sink
C22_Witness ==
    \E w \in Workers : \E j \in JobIds :
        /\ pc[w] = "brpop"
        /\ StatusOf(store, j) = "completed"
        /\ Len(sink[w]) >= 2
        /\ sink[w][Len(sink[w])].event = "output_policy_decision"
        /\ sink[w][Len(sink[w])].job_id = j

\* The keys job_data.update writes at completion, beside those of the envelope
CompletedKeys == {"status", "cats", "confidence", "processingTime", "model", "completedAt"}

\* C23: when the output decision is Redact, the gate replaces the result by the
\* decision's redacted payload (the result cut down to the four allowed keys), and
\* the write of 'completed' takes cats, confidence, processingTime and model from
\* that payload and adds no other result field to the record.
C23_RedactedPersisted ==
    [][\A w \in Workers :
         /\ (/\ pc[w] = "output_policy"
             /\ pc'[w] = "setex_completed"
             /\ evaluate_output_policy(result[w], policy_bundle).action = "redact")
            => /\ result'[w] = evaluate_output_policy(result[w], policy_bundle).redacted_output
               /\ DOMAIN result'[w] =
                      DOMAIN result[w] \cap {AllowedKeys[i] : i \in 1..Len(AllowedKeys)}
               /\ \A k \in DOMAIN result'[w] : result'[w][k] = result[w][k]
         /\ (/\ pc[w] = "setex_completed"
             /\ pc'[w] = "brpop"
             /\ sink[w][Len(sink[w])].decision.action = "redact")
            => LET rec == store'[job_data[w].id].value
               IN  /\ DOMAIN rec \ DOMAIN job_data[w] \subseteq CompletedKeys
                   /\ rec.status = "completed"
                   /\ sink[w][Len(sink[w])].decision.redacted_output = result[w]
                   /\ rec.cats = result[w]["cats"].v
                   /\ rec.confidence = result[w]["confidence"].v
                   /\ rec.processingTime = result[w]["processing_time"].v
                   /\ rec.model = result[w]["model"].v]_vars

\* A job is persisted 'completed' after a Redact decision about it
C23_Witness ==
    \E w \in Workers : \E j \in JobIds :
        /\ StatusOf(store, j) = "completed"
        /\ store[j].value.cats = 21
        /\ Len(sink[w]) >= 1
        /\ sink[w][Len(sink[w])].job_id = j
        /\ sink[w][Len(sink[w])].decision.action = "redact"

\* C24: when the file of a delivery is missing at the check, FileNotFoundError is
\* raised with the path of that file and the inference is not entered; the handler
\* then persists 'failed' with that message, the delivery has called neither
\* detect_cats nor the output policy, its last audit record is its
\* input_policy_decision, and neither step puts anything on the queue.
C24_MissingArtifactFails ==
    [][\A w \in Workers :
         /\ (pc[w] = "exists" /\ pc'[w] # "exists" /\ job_data[w].filename \notin Uploads)
            => /\ pc'[w] = "handler"
               /\ exc'[w] = FileNotFoundMessage(job_data[w].filename)
               /\ detect_calls' = detect_calls
               /\ queue' = queue
               /\ sink' = sink
         /\ (/\ pc[w] = "handler"
             /\ pc'[w] = "brpop"
             /\ job_data[w].filename \notin Uploads
             /\ Count(trace[w], "os.path.exists") = 1)
            => LET rec == store'[job_data[w].id].value
               IN  /\ rec.status = "failed"
                   /\ rec.error = FileNotFoundMessage(rec.filename)
                   /\ Count(trace[w], "detect_cats") = 0
                   /\ Count(trace[w], "emit_audit:output_policy_decision") = 0
                   /\ sink[w][Len(sink[w])].event = "input_policy_decision"
                   /\ sink[w][Len(sink[w])].job_id = rec.id
                   /\ sink' = sink
                   /\ detect_calls' = detect_calls
                   /\ queue' = queue]_vars

\* Two jobs have failed on their missing files, each record naming its own file,
\* and no inference has run
C24_Witness ==
    /\ \E j \in DOMAIN store :
           /\ store[j].value.status = "failed"
           /\ store[j].value.error = "Image file not found: /app/uploads/gone.jpg"
    /\ \E j \in DOMAIN store :
           /\ store[j].value.status = "failed"
           /\ store[j].value.error = "Image file not found: /app/uploads/lost.jpg"
    /\ \A j \in JobIds : detect_calls[j] = 0
    /\ queue = <<>>
    /\ \A w \in Workers : pc[w] = "brpop"

\* C25: with a model loaded, a step out of the inference that does not carry the
\* model's own result (its detection raised) is a step into the failure handler:
\* the job is never persisted 'completed' on another detector's result, and the
\* output policy is never evaluated on one.
C25_InferenceFailureFails ==
    [][\A w \in Workers :
         /\ (/\ pc[w] = "detect"
             /\ pc'[w] # "detect"
             /\ model_session # "none"
             /\ result'[w] \notin onnx_detection)
            => pc'[w] = "handler"
         /\ (/\ pc[w] \in {"output_policy", "setex_completed"}
             /\ pc'[w] # pc[w]
             /\ model_session # "none")
            => result[w] \notin detect_cats_mock]_vars

\* C26: in a process whose emissions follow one another, the k-th record of the sink
\* carries sequence k: the counter equals the number of records emitted, and a step
\* leaves it alone or adds exactly one, together with one record.
C26_SequenceCountsRecords ==
    /\ [](\A w \in Workers :
             /\ _SEQ[w] = Len(sink[w])
             /\ \A k \in 1..Len(sink[w]) : sink[w][k].sequence = k)
    /\ [][\A w \in Workers :
             \/ _SEQ'[w] = _SEQ[w] /\ sink'[w] = sink[w]
             \/ /\ _SEQ'[w] = _SEQ[w] + 1
                /\ Len(sink'[w]) = Len(sink[w]) + 1
                /\ SubSeq(sink'[w], 1, Len(sink[w])) = sink[w]]_vars

\* One process has emitted the records of two deliveries, the fourth carrying 4
C26_Witness ==
    \E w \in Workers :
        /\ Len(sink[w]) = 4
        /\ sink[w][1].sequence = 1
        /\ sink[w][4].sequence = 4
        /\ _SEQ[w] = 4

\* The worker is inside process_job
InProcessJob(w) == pc[w] # "brpop"

\* C27: a worker inside process_job takes nothing from the queue: every pop is the
\* step of a worker that was waiting in brpop, a worker keeps the job it holds until
\* process_job returns, and every record persisted 'processing' is the job in hand
\* of a worker that persisted it, so a worker stands for at most one such record.
C27_OneJobAtATime ==
    /\ [][/\ Len(queue') < Len(queue) =>
                 \E w \in Workers :
                     /\ ~InProcessJob(w)
                     /\ pc'[w] = "get"
                     /\ job_data'[w] = queue[Len(queue)]
                     /\ Len(queue') = Len(queue) - 1
          /\ \A w \in Workers :
                 (InProcessJob(w) /\ pc'[w] # "brpop") => job_data'[w].id = job_data[w].id]_vars
    /\ [](\A j \in JobIds :
              StatusOf(store, j) = "processing" =>
                  \E w \in Workers : InProcessJob(w) /\ persisted[w] /\ job_data[w].id = j)

\* A worker is in the middle of a job while another envelope waits on the queue
C27_Witness ==
    \E w \in Workers :
        /\ pc[w] = "detect"
        /\ persisted[w]
        /\ StatusOf(store, job_data[w].id) = "processing"
        /\ queue # <<>>
        /\ queue[Len(queue)].id # job_data[w].id

\* C28: start-up assigns the bundle and its digest once; from then on no step changes
\* either, they stay what load_policy_bundle returned at start-up, and every audit
\* record of the process carries that digest.
C28_BundleFixedAfterStartup ==
    /\ [][/\ phase # "boot" => phase' = phase
          /\ phase = "running" =>
                 /\ policy_bundle' = policy_bundle
                 /\ policy_digest' = policy_digest]_vars
    /\ [](phase = "running" =>
              /\ policy_bundle = load_policy_bundle(environ, files).bundle
              /\ policy_digest = load_policy_bundle(environ, files).digest
              /\ \A w \in Workers : \A k \in 1..Len(sink[w]) :
                     sink[w][k].policy_digest = policy_digest)
    /\ [](phase # "running" => \A w \in Workers : sink[w] = <<>>)

\* Started on a bundle file with whitespace, the service has emitted the records of
\* two deliveries of a job, all with the digest of the file's bytes
C28_Witness ==
    /\ phase = "running"
    /\ policy_digest = _sha256_hexdigest("DEFAULT_PRETTY")
    /\ Len(sink[Main]) = 3
    /\ \A k \in 1..3 : sink[Main][k].policy_digest = _sha256_hexdigest("DEFAULT_PRETTY")

\* The decision a call on objects returned, its payload read from the heap
Deref(heap, d) ==
    PolicyDecision(d.action, d.reasons, d.rule_ids,
                   IF d.redacted_output = "None" THEN None ELSE heap[d.redacted_output])

\* C29: the evaluators leave the job, the result and the bundle they are given as they
\* were; called again on the same objects they return equal decisions, the ones their
\* arguments' values determine; and the payload of a Redact decision is an object made
\* by the call, neither the result nor any other argument, and a new one at each call.
C29_EvaluatorsPure ==
    heap_eval # None =>
        LET before == heap_eval.before
            after == heap_eval.after
            out1 == heap_eval.output[1]
            out2 == heap_eval.output[2]
        IN  /\ \A r \in DOMAIN before : after[r] = before[r]
            /\ heap_eval.input[1] = heap_eval.input[2]
            /\ heap_eval.input[1] = evaluate_input_policy(before.job_data, before.bundle)
            /\ Deref(after, out1) = Deref(after, out2)
            /\ Deref(after, out1) = evaluate_output_policy(before.output, before.bundle)
            /\ out1.action = "redact" =>
                   /\ out1.redacted_output \notin DOMAIN before
                   /\ out2.redacted_output \notin DOMAIN before
                   /\ out1.redacted_output # out2.redacted_output
                   /\ after[out1.redacted_output] = _redact_output(before.output, before.bundle)

\* The evaluators have run on a job over the ceiling and a result with a field the
\* redaction drops: Deny and Redact, twice each
C29_Witness ==
    /\ heap_eval # None
    /\ heap_eval.input[2].action = "deny"
    /\ heap_eval.output[2].action = "redact"
    /\ "debug" \in DOMAIN heap_eval.before.output
    /\ "debug" \notin DOMAIN heap_eval.after[heap_eval.output[2].redacted_output]
    /\ heap_eval.after.output = heap_eval.before.output

\* The step is a write of worker w's job record
WritesRecord(w) ==
    \/ pc[w] = "setex_processing" /\ pc'[w] = "input_policy"
    \/ pc[w] = "setex_completed" /\ pc'[w] = "brpop"
    \/ pc[w] = "handler" /\ pc'[w] = "brpop"

\* C30: every write of a job record, 'processing', 'completed' or 'failed', stores it
\* with JobTTL seconds to live, whatever was left on the key before; a record changes
\* only in such a write; and no record is ever in the store without an expiry.
C30_EveryWriteSetsTTL ==
    /\ [][/\ \A w \in Workers :
                 WritesRecord(w) =>
                     /\ job_data[w].id \in DOMAIN store'
                     /\ store'[job_data[w].id].value.status \in {"processing", "completed", "failed"}
                     /\ store'[job_data[w].id].ttl = JobTTL
          /\ \A j \in DOMAIN store' :
                 (j \notin DOMAIN store \/ store'[j].value # store[j].value) =>
                     /\ store'[j].ttl = JobTTL
                     /\ \E w \in Workers : WritesRecord(w) /\ job_data[w].id = j]_vars
    /\ [](\A j \in DOMAIN store : store[j].ttl \in 1..JobTTL)

\* A job whose run took time: written 'processing', the key ran down, and the write
\* of 'completed' gave it the full JobTTL again
C30_Witness ==
    \E j \in DOMAIN store :
        /\ store[j].value.status = "completed"
        /\ store[j].value.completedAt >= store[j].value.processing_started + TickSeconds
        /\ store[j].ttl = JobTTL

\* The keys emit_audit sets itself
EmitterKeys == {"event", "timestamp", "simulated", "sequence"}

\* C31: the event, timestamp, simulated and sequence fields of an emitted record are
\* the event argument, the clock, the simulated flag and the counter as emit_audit
\* set them, whatever keys the caller's data holds.
C31_EmitterFieldsProtected ==
    emit_eval # None =>
        /\ emit_eval.enriched.event = emit_eval.event
        /\ emit_eval.enriched.timestamp = emit_eval.now
        /\ emit_eval.enriched.simulated = TRUE
        /\ emit_eval.enriched.sequence = emit_eval._SEQ

\* The same for callers whose data holds none of the emitter's keys, and what a
\* caller's key does: its value is the record's, and the signature is over it
EmitterFieldsUnlessNamed ==
    emit_eval # None =>
        /\ DOMAIN emit_eval.data \cap EmitterKeys = {} =>
               /\ emit_eval.enriched.event = emit_eval.event
               /\ emit_eval.enriched.timestamp = emit_eval.now
               /\ emit_eval.enriched.simulated = TRUE
               /\ emit_eval.enriched.sequence = emit_eval._SEQ
        /\ \A k \in DOMAIN emit_eval.data : emit_eval.enriched[k] = emit_eval.data[k]
        /\ emit_eval.enriched.signature = recompute_signature(emit_eval.enriched)

\* C32: a Redact decision for forbidden_pattern carries a redacted payload none of
\* whose string fields contains a forbidden pattern of the bundle, so that what
\* process_job persists in its place is free of them.
C32_NoForbiddenPatternSurvives ==
    (output_eval # None
        /\ Reports(output_eval.decision, "forbidden_pattern", "out.forbidden_pattern"))
    => ~PatternViolated(output_eval.decision.redacted_output)

\* C33: a Redact decision for response_too_large carries a redacted payload whose
\* compact serialization is at most max_response_size bytes, so that what process_job
\* persists in its place is within the bundle's limit.
C33_RedactedFitsLimit ==
    (output_eval # None
        /\ Reports(output_eval.decision, "response_too_large", "out.size"))
    => ~SizeViolated(output_eval.decision.redacted_output)

\* Where the oversized bytes sit in a field the redaction drops, the payload fits
RedactedFitsWhenForeign ==
    (output_eval # None
        /\ Reports(output_eval.decision, "response_too_large", "out.size")
        /\ ~SizeViolated(_redact_output(output_eval.output, policy_bundle)))
    => /\ ~SizeViolated(output_eval.decision.redacted_output)
       /\ DOMAIN output_eval.output # DOMAIN output_eval.decision.redacted_output

\* The record in the store is the one worker w wrote before it was killed
Orphaned(w) ==
    /\ pc[w] = "killed"
    /\ job_data[w].id \in DOMAIN store
    /\ store[job_data[w].id].value = job_data[w]

\* Another worker is past the idempotency check of a delivery of the same job
Racing(w) ==
    \E v \in Workers \ {w} : PastCheck(v) /\ job_data[v].id = job_data[w].id

\* C34: the 'processing' record of a job whose worker was killed before a terminal
\* write stays as it is until it expires: no step advances it to 'completed' or
\* 'failed', and a delivery of the job checked meanwhile returns at the check.
C34_OrphanStaysProcessing ==
    [][\A w \in Workers :
         Orphaned(w) =>
             /\ \/ job_data[w].id \notin DOMAIN store'
                \/ store'[job_data[w].id].value = store[job_data[w].id].value
             /\ \A v \in Workers :
                    (pc[v] = "get" /\ pc'[v] # "get" /\ job_data[v].id = job_data[w].id)
                        => pc'[v] = "brpop"]_vars

\* The same where no other delivery of the job had passed its check: every delivery
\* checked from then on is skipped, none gets past the check, the record only expires
OrphanStaysUnlessRacing ==
    [][\A w \in Workers :
         (Orphaned(w) /\ ~Racing(w)) =>
             /\ \/ job_data[w].id \notin DOMAIN store' /\ store[job_data[w].id].ttl <= TickSeconds
                \/ /\ job_data[w].id \in DOMAIN store'
                   /\ store'[job_data[w].id].value = store[job_data[w].id].value
                   /\ store'[job_data[w].id].value.status = "processing"
             /\ \A v \in Workers :
                    (pc[v] = "get" /\ pc'[v] # "get" /\ job_data[v].id = job_data[w].id)
                        => (pc'[v] = "brpop" /\ sink' = sink /\ store' = store)
             /\ ~Racing(w)']_vars

\* A later delivery of an orphaned job is at its check
OrphanRedelivered ==
    \E v \in Workers : Orphaned(Main) /\ ~Racing(Main) /\ pc[v] = "get" /\ job_data[v].id = "j1"

\* C35: evaluate_input_policy denies exactly when the envelope has a size that is an
\* int above 25 MiB; with no size, or a size that is no int, it allows; and the
\* decision is the same under every bundle.
C35_DenyOnlyIntOverCeiling ==
    input_eval # NoInputEval =>
        LET job == input_eval.job
            d == input_eval.decision
            over == /\ "size" \in DOMAIN job
                    /\ job.size.t = "int"
                    /\ job.size.v > 25 * 1024 * 1024
        IN  /\ d.action = (IF over THEN "deny" ELSE "allow")
            /\ \A bundle \in {_default_policy_bundle, StrictBundle, SparseBundle, EmptyDict} :
                   evaluate_input_policy(job, bundle) = d

\* A float size above the ceiling was evaluated under the strict bundle and allowed
C35_Witness ==
    /\ input_eval # NoInputEval
    /\ "size" \in DOMAIN input_eval.job
    /\ input_eval.job.size.t = "float"
    /\ policy_bundle = StrictBundle
    /\ input_eval.decision.action = "allow"

\* SIMULATED_ATTESTATION is unset or reads true in any case
SimulatedMode == lower(getenv_or(environ, "SIMULATED_ATTESTATION", "true")) = "true"

\* C36: in simulated mode (the default) evidence built by build_dev_evidence(d) is
\* accepted by DevAttestationVerifier(d2) exactly when d = d2; with the flag set to
\* anything else it is built non-simulated and every verifier rejects it; and two
\* evidence objects built carry different nonces.
C36_BuiltEvidenceRoundTrip ==
    (attest_eval # None /\ "built" \in DOMAIN attest_eval) =>
        /\ attest_eval.evidence.policy_digest = attest_eval.built
        /\ attest_eval.evidence.simulated = SimulatedMode
        /\ SimulatedMode => (attest_eval.result.ok <=> attest_eval.built = attest_eval.expected)
        /\ ~SimulatedMode =>
               attest_eval.result = [ok |-> FALSE,
                                     reason |-> "non-simulated evidence in dev verifier"]
        /\ attest_eval.evidence.nonce # attest_eval.again.nonce

\* With the flag set to false, evidence built for the very digest the verifier
\* expects was rejected
C36_Witness ==
    /\ attest_eval # None
    /\ "built" \in DOMAIN attest_eval
    /\ "SIMULATED_ATTESTATION" \in DOMAIN environ
    /\ environ["SIMULATED_ATTESTATION"] = "false"
    /\ attest_eval.built = attest_eval.expected
    /\ ~attest_eval.result.ok
    /\ attest_eval.evidence.nonce # attest_eval.again.nonce

\* In the default configuration evidence was accepted for the matching digest
BuiltEvidenceAccepted ==
    /\ attest_eval # None
    /\ "built" \in DOMAIN attest_eval
    /\ "SIMULATED_ATTESTATION" \notin DOMAIN environ
    /\ attest_eval.result.ok

====
